---- MODULE Spec2Model ----
(***************************************************************************)
(* Model of the brainfuck toolchain: raw programs (src/raw.rs), the IR and *)
(* its optimizer (src/ir/mod.rs, src/ir/optimizations.rs), the memory tape *)
(* (src/engine/mem.rs) and the two stepwise engines (src/engine/raw.rs,    *)
(* src/engine/ir.rs) driven by the host loop of tests/examples.rs.         *)
(***************************************************************************)
EXTENDS Integers, Sequences, FiniteSets, TLC

(***************************************************************************)
(* Bounds of the model                                                     *)
(***************************************************************************)
MaxProgLen == 4      \* longest raw program enumerated
MaxInput == 2        \* longest host input stream enumerated
MaxEvents == 4       \* I/O events after which an engine is no longer stepped
MaxMp == 3           \* largest memory pointer at which an engine is stepped
MaxPasses == 12      \* passes after which a fixed-point loop is cut off
MaxRounds == 4       \* optimize/trim rounds after which from_raw is cut off
MaxText == 4         \* longest source text enumerated
MaxCell == 2         \* highest cell index written by the Memory calls
MaxShift == 2        \* largest |k| of one call of shifted
MaxOffset == 4       \* largest |total shift| of a node that is followed
MaxFeedLen == 2      \* longest program run under a host that gives input at any time
MaxFileLen == 5      \* longest file given to save::parse
MaxRunSteps == 8     \* steps after which a call of Engine::run is cut off
MaxNodes == 3        \* most nodes, nested ones included, of an IR Block enumerated

(***************************************************************************)
(* Program constants                                                       *)
(***************************************************************************)
Byte == 256          \* number of values of a u8 cell

InputBytes == {0, 1}

Opcodes == {">", "<", "+", "-", ".", ",", "[", "]"}

(***************************************************************************)
(* IR nodes (enum Node).  A Block is a sequence of nodes.                  *)
(***************************************************************************)
Noop == [tag |-> "Noop"]

ShiftNode(a) == [tag |-> "Shift", amount |-> a]

AddNode(a, o) == [tag |-> "Add", amount |-> a, offset |-> o]

OutputNode(o) == [tag |-> "Output", offset |-> o]

InputNode(o) == [tag |-> "Input", offset |-> o]

LoopNode(b, o) == [tag |-> "Loop", body |-> b, offset |-> o]

\* position of the variant in the enum declaration, which the derived Ord
\* compares first
VariantIndex(n) ==
    CASE n.tag = "Noop" -> 0
      [] n.tag = "Shift" -> 1
      [] n.tag = "Add" -> 2
      [] n.tag = "Output" -> 3
      [] n.tag = "Input" -> 4
      [] n.tag = "Loop" -> 5

IntCmp(a, b) == IF a < b THEN -1 ELSE IF a > b THEN 1 ELSE 0

RECURSIVE NodeCmp(_, _)
RECURSIVE BlockCmp(_, _)
\* derived Ord of Node: variant first, then the fields in declaration order
NodeCmp(n1, n2) ==
    IF VariantIndex(n1) # VariantIndex(n2)
    THEN IntCmp(VariantIndex(n1), VariantIndex(n2))
    ELSE CASE n1.tag = "Noop" -> 0
           [] n1.tag = "Shift" -> IntCmp(n1.amount, n2.amount)
           [] n1.tag = "Add" ->
                IF n1.amount # n2.amount THEN IntCmp(n1.amount, n2.amount)
                ELSE IntCmp(n1.offset, n2.offset)
           [] n1.tag \in {"Output", "Input"} -> IntCmp(n1.offset, n2.offset)
           [] n1.tag = "Loop" ->
                LET c == BlockCmp(n1.body, n2.body)
                IN  IF c # 0 THEN c ELSE IntCmp(n1.offset, n2.offset)

\* derived Ord of Block: lexicographic order of the node vectors
BlockCmp(b1, b2) ==
    IF b1 = <<>> /\ b2 = <<>> THEN 0
    ELSE IF b1 = <<>> THEN -1
    ELSE IF b2 = <<>> THEN 1
    ELSE LET c == NodeCmp(Head(b1), Head(b2))
         IN  IF c # 0 THEN c ELSE BlockCmp(Tail(b1), Tail(b2))

\* Node::shifted that moves a Loop without mapping over its body
shifted_flat(n, k) ==
    CASE n.tag = "Noop" -> n
      [] n.tag = "Shift" -> n
      [] n.tag = "Add" -> AddNode(n.amount, n.offset + k)
      [] n.tag = "Output" -> OutputNode(n.offset + k)
      [] n.tag = "Input" -> InputNode(n.offset + k)
      [] n.tag = "Loop" -> LoopNode(n.body, n.offset + k)

RECURSIVE shifted(_, _)
\* Node::shifted
shifted(n, k) ==
    CASE n.tag = "Noop" -> n
      [] n.tag = "Shift" -> n
      [] n.tag = "Add" -> AddNode(n.amount, n.offset + k)
      [] n.tag = "Output" -> OutputNode(n.offset + k)
      [] n.tag = "Input" -> InputNode(n.offset + k)
      [] n.tag = "Loop" ->
            LoopNode([i \in 1..Len(n.body) |-> shifted(n.body[i], k)],
                     n.offset + k)

RECURSIVE does_output(_)
\* Node::does_output
does_output(n) ==
    CASE n.tag = "Output" -> TRUE
      [] n.tag = "Loop" -> \E i \in 1..Len(n.body) : does_output(n.body[i])
      [] OTHER -> FALSE

RECURSIVE does_input_anywhere(_)
\* the node is an Input or a Loop that holds one at any depth
does_input_anywhere(n) ==
    CASE n.tag = "Input" -> TRUE
      [] n.tag = "Loop" ->
            \E i \in 1..Len(n.body) : does_input_anywhere(n.body[i])
      [] OTHER -> FALSE

\* Node::diverge: "false" is Some(false), "unknown" is None
diverge(n) == IF n.tag = "Loop" THEN "unknown" ELSE "false"

\* commute with one more arm: an Output and an Input at different offsets
\* are taken to commute
commute_io(n1, n2) ==
    IF n1.tag = "Noop" \/ n2.tag = "Noop" THEN TRUE
    ELSE IF n1.tag = "Shift" /\ n2.tag = "Shift" THEN TRUE
    ELSE IF n1.tag = "Shift" \/ n2.tag = "Shift" THEN FALSE
    ELSE IF n1.tag \in {"Add", "Output", "Input"}
            /\ n2.tag \in {"Add", "Output", "Input"}
         THEN n1.offset # n2.offset
    ELSE FALSE

\* Node::commute
commute(n1, n2) ==
    IF n1.tag = "Noop" \/ n2.tag = "Noop" THEN TRUE
    ELSE IF n1.tag = "Shift" /\ n2.tag = "Shift" THEN TRUE
    ELSE IF n1.tag = "Shift" \/ n2.tag = "Shift" THEN FALSE
    ELSE IF n1.tag = "Add" /\ n2.tag \in {"Add", "Output", "Input"}
         THEN n1.offset # n2.offset
    ELSE IF n1.tag \in {"Output", "Input"} /\ n2.tag = "Add"
         THEN n1.offset # n2.offset
    ELSE FALSE

(***************************************************************************)
(* The optimizer.  A rewrite returns Either: Left (right = FALSE) hands    *)
(* the window back, Right (right = TRUE) replaces it.  cut records that a  *)
(* fixed-point loop inside was cut off at MaxPasses.                       *)
(***************************************************************************)
Left(ns) == [right |-> FALSE, nodes |-> ns, cut |-> FALSE]

Right(ns) == [right |-> TRUE, nodes |-> ns, cut |-> FALSE]

RECURSIVE Flatten(_)
\* the "recollecting" loop of optimize_n: concatenation of the windows
Flatten(chs) ==
    IF chs = <<>> THEN <<>> ELSE Head(chs).nodes \o Flatten(Tail(chs))

\* remove_noops
remove_noops(n) == IF n.tag = "Noop" THEN Right(<<>>) ELSE Left(<<n>>)

\* collate whose sum of two amounts saturates at 255 in place of wrapping
collate_sat(n1, n2) ==
    IF n1.tag = "Shift" /\ n2.tag = "Shift"
    THEN IF n1.amount + n2.amount # 0
         THEN Right(<<ShiftNode(n1.amount + n2.amount)>>)
         ELSE Right(<<>>)
    ELSE IF n1.tag = "Add" /\ n2.tag = "Add" /\ n1.offset = n2.offset
    THEN IF n1.amount + n2.amount < Byte
         THEN Right(<<AddNode(n1.amount + n2.amount, n1.offset)>>)
         ELSE Right(<<AddNode(Byte - 1, n1.offset)>>)
    ELSE IF n1.tag = "Loop" /\ n2.tag = "Loop" /\ n1.offset = n2.offset
    THEN Right(<<n1>>)
    ELSE Left(<<n1, n2>>)

\* collate
collate(n1, n2) ==
    IF n1.tag = "Shift" /\ n2.tag = "Shift"
    THEN IF n1.amount + n2.amount # 0
         THEN Right(<<ShiftNode(n1.amount + n2.amount)>>)
         ELSE Right(<<>>)
    ELSE IF n1.tag = "Add" /\ n2.tag = "Add" /\ n1.offset = n2.offset
    THEN IF (n1.amount + n2.amount) % Byte # 0
         THEN Right(<<AddNode((n1.amount + n2.amount) % Byte, n1.offset)>>)
         ELSE Right(<<>>)
    ELSE IF n1.tag = "Loop" /\ n2.tag = "Loop" /\ n1.offset = n2.offset
    THEN Right(<<n1>>)
    ELSE Left(<<n1, n2>>)

\* retard_shifts that moves the node before the Shift as it is
retard_shifts_plain(n1, n2) ==
    IF n1.tag = "Shift" THEN Right(<<n2, n1>>)
    ELSE Left(<<n1, n2>>)

\* retard_shifts
retard_shifts(n1, n2) ==
    IF n1.tag = "Shift" THEN Right(<<shifted(n2, n1.amount), n1>>)
    ELSE Left(<<n1, n2>>)

\* sort_ops comparing with "differs" in place of "greater"
sort_ops_ne(n1, n2) ==
    IF commute(n1, n2) /\ NodeCmp(n1, n2) # 0 THEN Right(<<n2, n1>>)
    ELSE Left(<<n1, n2>>)

\* sort_ops
sort_ops(n1, n2) ==
    IF commute(n1, n2) /\ NodeCmp(n1, n2) = 1 THEN Right(<<n2, n1>>)
    ELSE Left(<<n1, n2>>)

\* OPTIMIZATIONS_2 applied to one window: the first rewrite that returns
\* Right wins, so sort_ops sees the window only if retard_shifts (r) left it
Window2Sort(r, n1, n2) == IF r.right THEN r ELSE sort_ops(n1, n2)

\* ... and retard_shifts sees it only if collate (c) left it
Window2Retard(c, n1, n2) ==
    IF c.right THEN c ELSE Window2Sort(retard_shifts(n1, n2), n1, n2)

Window2(n1, n2) == Window2Retard(collate(n1, n2), n1, n2)

\* the "recollecting" loop of optimize_n: the untouched prefix, the windows
\* chs and the untouched postfix; changed is set by any Right
Recollect(prefix, chs, postfix) ==
    [nodes |-> prefix \o Flatten(chs) \o postfix,
     changed |-> \E j \in 1..Len(chs) : chs[j].right,
     cut |-> \E j \in 1..Len(chs) : chs[j].cut]

\* the windows of as_chunks_mut::<2> over rest, rewritten
Windows2(rest) ==
    [j \in 1..(Len(rest) \div 2) |-> Window2(rest[2 * j - 1], rest[2 * j])]

\* one iteration of the "for i in 0..N" loop of optimize_n with N = 2
Pass2At(nodes, i) ==
    IF Len(nodes) < 2 THEN [nodes |-> nodes, changed |-> FALSE, cut |-> FALSE]
    ELSE Recollect(SubSeq(nodes, 1, i),
                   Windows2(SubSeq(nodes, i + 1, Len(nodes))),
                   SubSeq(nodes, Len(nodes) - ((Len(nodes) - i) % 2) + 1,
                          Len(nodes)))

\* the flag `changed` assigned, not accumulated: a change made by p1 alone
\* goes unreported
AfterBoth_first(p0, p1) ==
    [nodes |-> p1.nodes, changed |-> p0.changed, cut |-> p0.cut \/ p1.cut]

\* the flag `changed` after two iterations p0, p1 of the for loop
AfterBoth(p0, p1) ==
    [nodes |-> p1.nodes, changed |-> p0.changed \/ p1.changed,
     cut |-> p0.cut \/ p1.cut]

\* the second iteration of the for loop after the first returned p0
Pass2Second(p0) == AfterBoth(p0, Pass2At(p0.nodes, 1))

\* optimize_n pairing the nodes from the start of the list only (i = 0)
optimize_2_even(nodes) == Pass2At(nodes, 0)

\* optimize_n with OPTIMIZATIONS_2
optimize_2(nodes) == Pass2Second(Pass2At(nodes, 0))

RECURSIVE OptimizeLoop(_, _)
RECURSIVE OptimizeNext(_, _)
\* what recurse returns for a Loop whose body.optimize() returned r
RecurseLoop(r, offset) ==
    [right |-> r.changed, nodes |-> <<LoopNode(r.blk, offset)>>,
     cut |-> r.cut]

\* recurse
recurse(n) ==
    IF n.tag = "Loop" THEN RecurseLoop(OptimizeLoop(n.body, 0), n.offset)
    ELSE Left(<<n>>)

\* OPTIMIZATIONS_1 applied to one window: remove_noops sees the node only
\* if recurse (r) left it
Window1Noops(r, n) == IF r.right \/ r.cut THEN r ELSE remove_noops(n)

Window1(n) == Window1Noops(recurse(n), n)

\* optimize_n with OPTIMIZATIONS_1
optimize_1(nodes) ==
    Recollect(<<>>, [j \in 1..Len(nodes) |-> Window1(nodes[j])], <<>>)

\* optimizations::optimize after optimize_n with OPTIMIZATIONS_1 returned a
OptimizePass2(a) == AfterBoth(a, optimize_2(a.nodes))

\* optimizations::optimize: one pass of the fixed-point loop
optimize_pass(nodes) == OptimizePass2(optimize_1(nodes))

\* the while loop of Block::optimize after `repeats` passes, the last of
\* which returned p
OptimizeNext(p, repeats) ==
    IF p.cut THEN [blk |-> p.nodes, changed |-> TRUE, cut |-> TRUE]
    ELSE IF ~p.changed
    THEN [blk |-> p.nodes, changed |-> repeats > 1, cut |-> FALSE]
    ELSE IF repeats >= MaxPasses
    THEN [blk |-> p.nodes, changed |-> TRUE, cut |-> TRUE]
    ELSE OptimizeLoop(p.nodes, repeats)

\* the while loop of Block::optimize after `repeats` passes
OptimizeLoop(nodes, repeats) == OptimizeNext(optimize_pass(nodes), repeats + 1)

\* Block::optimize
optimize(blk) == OptimizeLoop(blk, 0)

(***************************************************************************)
(* Raw programs (src/raw.rs)                                               *)
(***************************************************************************)
RECURSIVE ParCount_sat(_, _, _)
\* the bracket scan with saturating_sub in place of checked_sub: a `]`
\* met at par_count = 0 is let through
ParCount_sat(code, i, count) ==
    IF i > Len(code) THEN count
    ELSE IF code[i] = "[" THEN ParCount_sat(code, i + 1, count + 1)
    ELSE IF code[i] = "]"
         THEN ParCount_sat(code, i + 1, IF count = 0 THEN 0 ELSE count - 1)
    ELSE ParCount_sat(code, i + 1, count)

RECURSIVE ParCount(_, _, _)
\* the bracket scan of Program::from_instrs from instruction i on with
\* par_count = count: the final count, or -1 for Err(UnmatchedParentheses)
ParCount(code, i, count) ==
    IF i > Len(code) THEN count
    ELSE IF code[i] = "[" THEN ParCount(code, i + 1, count + 1)
    ELSE IF code[i] = "]"
         THEN IF count = 0 THEN -1 ELSE ParCount(code, i + 1, count - 1)
    ELSE ParCount(code, i + 1, count)

\* Program::from_instrs returns Ok
from_instrs_ok(code) == ParCount(code, 1, 0) = 0

\* the raw Programs that can be constructed, up to MaxProgLen instructions
RawPrograms ==
    {code \in UNION {[1..n -> Opcodes] : n \in 0..MaxProgLen} :
        from_instrs_ok(code)}

(***************************************************************************)
(* Construction of a raw Program from text.  A character is its code       *)
(* point, a byte its value, an Instruction its opcode character; "none" is *)
(* the Err of the conversions.                                             *)
(***************************************************************************)
\* impl TryFrom<u8> for Instruction
try_from_u8(value) ==
    CASE value = 62 -> ">"
      [] value = 60 -> "<"
      [] value = 43 -> "+"
      [] value = 45 -> "-"
      [] value = 46 -> "."
      [] value = 44 -> ","
      [] value = 91 -> "["
      [] value = 93 -> "]"
      [] OTHER -> "none"

\* the conversion with the cast `value as u8`, which cuts the code point
\* to its low byte
try_from_char_cast(value) == try_from_u8(value % Byte)

\* impl TryFrom<char> for Instruction: u8::try_from(value) fails for a
\* code point above 255
try_from_char(value) == IF value < Byte THEN try_from_u8(value) ELSE "none"

\* impl From<Instruction> for u8 (#[repr(u8)])
u8_from(instr) ==
    CASE instr = ">" -> 62
      [] instr = "<" -> 60
      [] instr = "+" -> 43
      [] instr = "-" -> 45
      [] instr = "." -> 46
      [] instr = "," -> 44
      [] instr = "[" -> 91
      [] instr = "]" -> 93

RECURSIVE filter_chars(_)
\* filter_map(|ch| Instruction::try_from(ch).ok()) over characters
filter_chars(chars) ==
    IF chars = <<>> THEN <<>>
    ELSE IF try_from_char(Head(chars)) = "none" THEN filter_chars(Tail(chars))
    ELSE <<try_from_char(Head(chars))>> \o filter_chars(Tail(chars))

RECURSIVE filter_bytes(_)
\* filter_map(|ch| Instruction::try_from(ch).ok()) over bytes
filter_bytes(bytes) ==
    IF bytes = <<>> THEN <<>>
    ELSE IF try_from_u8(Head(bytes)) = "none" THEN filter_bytes(Tail(bytes))
    ELSE <<try_from_u8(Head(bytes))>> \o filter_bytes(Tail(bytes))

\* Program::from_instrs: Ok(Self { code }) or Err(UnmatchedParentheses)
from_instrs(code) ==
    IF from_instrs_ok(code) THEN [ok |-> TRUE, code |-> code]
    ELSE [ok |-> FALSE]

\* Program::from_chars and <Program as FromStr>::from_str
from_chars(chars) == from_instrs(filter_chars(chars))

from_str(s) == from_instrs(filter_chars(s))

\* Program::from_bytes
from_bytes(bytes) == from_instrs(filter_bytes(bytes))

\* Program::as_bytes
as_bytes(code) == [i \in 1..Len(code) |-> u8_from(code[i])]

\* the bytes of a character of a &str (UTF-8, code points below 2048)
Utf8Char(c) ==
    IF c < 128 THEN <<c>> ELSE <<192 + (c \div 64), 128 + (c % 64)>>

RECURSIVE Utf8(_)
\* str::bytes of a text
Utf8(s) == IF s = <<>> THEN <<>> ELSE Utf8Char(Head(s)) \o Utf8(Tail(s))

\* the characters of the texts enumerated: + [ ] a and U+012B, a
\* character beyond Latin-1 whose low byte is that of +
TextChars == {43, 91, 93, 97, 299}

Texts == UNION {[1..n -> TextChars] : n \in 0..MaxText}

(***************************************************************************)
(* Lowering and the top-level trim (ir::Program::from_raw)                 *)
(***************************************************************************)
\* lowering with the two shifts mixed up: `<` pushes Shift{+1}
LowerInstr_right(c) ==
    CASE c = ">" -> ShiftNode(1)
      [] c = "<" -> ShiftNode(1)
      [] c = "+" -> AddNode(1, 0)
      [] c = "-" -> AddNode(255, 0)
      [] c = "." -> OutputNode(0)
      [] c = "," -> InputNode(0)

\* the node pushed for an instruction that is not a bracket
LowerInstr(c) ==
    CASE c = ">" -> ShiftNode(1)
      [] c = "<" -> ShiftNode(-1)
      [] c = "+" -> AddNode(1, 0)
      [] c = "-" -> AddNode(255, 0)
      [] c = "." -> OutputNode(0)
      [] c = "," -> InputNode(0)

RECURSIVE LowerFrom(_, _, _)
\* the for loop of from_raw from instruction i on; stack is the stack of
\* open blocks; panic records a failed unwrap
LowerFrom(code, i, stack) ==
    IF i > Len(code) THEN [stack |-> stack, panic |-> FALSE]
    ELSE IF code[i] = "[" THEN LowerFrom(code, i + 1, Append(stack, <<>>))
    ELSE IF code[i] = "]"
         THEN IF Len(stack) < 2 THEN [stack |-> stack, panic |-> TRUE]
              ELSE LET body == stack[Len(stack)]
                       rest == SubSeq(stack, 1, Len(stack) - 1)
                       top == rest[Len(rest)]
                   IN  LowerFrom(code, i + 1,
                           [rest EXCEPT ![Len(rest)] =
                               Append(top, LoopNode(body, 0))])
    ELSE IF stack = <<>> THEN [stack |-> stack, panic |-> TRUE]
    ELSE LowerFrom(code, i + 1,
             [stack EXCEPT ![Len(stack)] = Append(@, LowerInstr(code[i]))])

\* the lowering part of from_raw: the unoptimized top block
Lowered(r) ==
    IF r.panic \/ Len(r.stack) # 1 THEN [panic |-> TRUE, body |-> <<>>]
    ELSE [panic |-> FALSE, body |-> r.stack[1]]

lower(code) == Lowered(LowerFrom(code, 1, <<<<>>>>))

RECURSIVE LeadingLoops(_, _)
\* "removing leading loops": the value of s when the scan stops, or -1 when
\* the index body.0[s] goes out of range
LeadingLoops(body, s) ==
    IF s >= Len(body) THEN -1
    ELSE IF body[s + 1].tag = "Loop" THEN LeadingLoops(body, s + 1)
    ELSE s

\* the condition of the tail scan on one node
Trimmable(n) == diverge(n) = "false" /\ ~does_output(n)

RECURSIVE TailEnd(_, _)
\* "removing tail": the value of e when the scan stops, or -1 when the
\* index body.0[e] goes out of range or e -= 1 goes below zero
TailEnd(body, e) ==
    IF e >= Len(body) THEN -1
    ELSE IF Trimmable(body[e + 1])
         THEN IF e = 0 THEN -1 ELSE TailEnd(body, e - 1)
    ELSE e

\* usize::saturating_sub
saturating_sub(a, b) == IF a >= b THEN a - b ELSE 0

\* the drain(s..=e) of from_raw, which panics on a range out of bounds
Drain(body, s, e) ==
    IF s = -1 \/ e = -1 \/ s > e + 1 \/ e + 1 > Len(body)
    THEN [panic |-> TRUE, body |-> body]
    ELSE [panic |-> FALSE, body |-> SubSeq(body, s + 1, e + 1)]

\* one execution of the body of the while loop of from_raw
trim(body) ==
    Drain(body, LeadingLoops(body, 0),
          TailEnd(body, saturating_sub(Len(body), 1)))

RECURSIVE TrimLoop(_, _)
\* the while loop of from_raw after its body returned t in round `rounds`
TrimNext(t, rounds) ==
    IF t.panic THEN [panic |-> TRUE, cut |-> FALSE, body |-> t.body]
    ELSE IF rounds >= MaxRounds
    THEN [panic |-> FALSE, cut |-> TRUE, body |-> t.body]
    ELSE TrimLoop(t.body, rounds)

\* the while loop of from_raw after body.optimize() returned o
TrimCond(o, rounds) ==
    IF o.cut THEN [panic |-> FALSE, cut |-> TRUE, body |-> o.blk]
    ELSE IF ~o.changed THEN [panic |-> FALSE, cut |-> FALSE, body |-> o.blk]
    ELSE TrimNext(trim(o.blk), rounds + 1)

\* the while loop of from_raw after `rounds` executions of its body
TrimLoop(body, rounds) == TrimCond(optimize(body), rounds)

\* from_raw after the lowering returned l
FromLowered(l) ==
    IF l.panic THEN [panic |-> TRUE, cut |-> FALSE, body |-> <<>>]
    ELSE TrimLoop(l.body, 0)

\* ir::Program::from_raw
from_raw(code) == FromLowered(lower(code))

(***************************************************************************)
(* Memory tape (src/engine/mem.rs): the backing buffer is a sequence of    *)
(* bytes, cell pos is element pos + 1.                                     *)
(***************************************************************************)
Zeros(n) == [i \in 1..n |-> 0]

\* Memory::get; pos is a usize, so a negative isize cast to it lies beyond
\* every buffer
mem_get(m, pos) == IF 0 <= pos /\ pos < Len(m) THEN m[pos + 1] ELSE 0

\* the buffer after Memory::get_mut(pos), which extends it to reach pos
mem_get_mut(m, pos) == m \o Zeros(saturating_sub(pos + 1, Len(m)))

\* the buffer after *Memory::get_mut(pos) = value
mem_write(m, pos, value) == [mem_get_mut(m, pos) EXCEPT ![pos + 1] = value]

\* Memory::set that takes a zero for "nothing to write" also inside the
\* buffer
mem_set_nz(m, pos, value) == IF value # 0 THEN mem_write(m, pos, value) ELSE m

\* Memory::set that extends the buffer for a zero as well
mem_set_grow(m, pos, value) ==
    IF 0 <= pos THEN mem_write(m, pos, value) ELSE m

\* Memory::set
mem_set(m, pos, value) ==
    IF 0 <= pos /\ pos < Len(m) THEN [m EXCEPT ![pos + 1] = value]
    ELSE IF value # 0 /\ 0 <= pos THEN mem_write(m, pos, value)
    ELSE m

\* a comparison of the two buffers as they are
mem_eq_exact(m1, m2) == m1 = m2

\* <Memory as PartialEq>::eq: s1 is the longer buffer, cut into the part
\* s2 covers and the rest (diff)
mem_eq(m1, m2) ==
    LET s1 == IF Len(m1) >= Len(m2) THEN m1 ELSE m2
        s2 == IF Len(m1) >= Len(m2) THEN m2 ELSE m1
        common == SubSeq(s1, 1, Len(s2))
        diff == SubSeq(s1, Len(s2) + 1, Len(s1))
    IN  /\ \A i \in 1..Len(s2) : common[i] = s2[i]
        /\ \A i \in 1..Len(diff) : diff[i] = 0

\* filled_len that takes the whole buffer for filled
filled_len_all(m) == Len(m)

RECURSIVE filled_len(_)
\* Memory::filled_len: the length of the buffer without the zeros at its end
filled_len(m) ==
    IF Len(m) > 0 /\ m[Len(m)] = 0 THEN filled_len(SubSeq(m, 1, Len(m) - 1))
    ELSE Len(m)

\* the buffer after Memory::shrink_to_fit
mem_shrink_to_fit(m) == SubSeq(m, 1, filled_len(m))

\* Memory::as_bytes
mem_as_bytes(m) == SubSeq(m, 1, filled_len(m))

\* <Memory as Hash>::hash: the bytes that are fed to the hasher
mem_hash(m) == mem_as_bytes(m)

RECURSIVE slice_cmp(_, _)
\* Ord of two slices of bytes: the first pair of elements that differ
\* decides, and a slice that is a prefix of the other is the lesser
slice_cmp(s, o) ==
    IF s = <<>> THEN (IF o = <<>> THEN 0 ELSE -1)
    ELSE IF o = <<>> THEN 1
    ELSE IF Head(s) # Head(o) THEN IntCmp(Head(s), Head(o))
    ELSE slice_cmp(Tail(s), Tail(o))

\* the ordering a derived Ord would give: that of the two buffers
mem_cmp_derived(m1, m2) == slice_cmp(m1, m2)

\* <Memory as Ord>::cmp: -1 is Less, 0 Equal, 1 Greater; sc and oc are the
\* parts of the buffers up to the shorter length, sd and od what is left
mem_cmp(m1, m2) ==
    LET common == IF Len(m1) <= Len(m2) THEN Len(m1) ELSE Len(m2)
        sc == SubSeq(m1, 1, common)
        sd == SubSeq(m1, common + 1, Len(m1))
        oc == SubSeq(m2, 1, common)
        od == SubSeq(m2, common + 1, Len(m2))
    IN  IF slice_cmp(sc, oc) # 0 THEN slice_cmp(sc, oc)
        ELSE IF \E i \in 1..Len(sd) : sd[i] # 0 THEN 1
        ELSE IF \E i \in 1..Len(od) : od[i] # 0 THEN -1
        ELSE 0

(***************************************************************************)
(* Affine memory transformations (src/linear.rs).  A BTreeMap is a         *)
(* function on its set of keys; its entries are visited in key order.      *)
(***************************************************************************)
\* the match on a map entry that keeps a sum of 0 as an entry
entry_add_keep(m, k, v) ==
    IF k \in DOMAIN m THEN [m EXCEPT ![k] = (@ + v) % Byte]
    ELSE [x \in DOMAIN m \cup {k} |-> IF x = k THEN v ELSE m[x]]

\* the match on map.entry(k) that adds v: Vacant inserts v, Occupied stores
\* the wrapping sum, or removes the entry when the sum is 0
entry_add(m, k, v) ==
    IF k \in DOMAIN m
    THEN IF (m[k] + v) % Byte # 0 THEN [m EXCEPT ![k] = (@ + v) % Byte]
         ELSE [x \in DOMAIN m \ {k} |-> m[x]]
    ELSE [x \in DOMAIN m \cup {k} |-> IF x = k THEN v ELSE m[x]]

\* Affine::set
affine_set(pos, value) ==
    [matrix |-> (<<pos, pos>> :> (Byte - 1)),
     bias |-> IF value # 0 THEN (pos :> value) ELSE <<>>]

\* Affine::add
affine_add(pos, value) ==
    [matrix |-> <<>>,
     bias |-> IF value # 0 THEN (pos :> value) ELSE <<>>]

\* Ord of (isize, isize), and of isize for pairs <<i, i>>
PairLe(k1, k2) == k1[1] < k2[1] \/ (k1[1] = k2[1] /\ k1[2] <= k2[2])

RECURSIVE KeysInOrder(_)
\* the keys of a BTreeMap as iteration visits them; a key of the bias is
\* taken as the pair <<k, k>>
KeysInOrder(S) ==
    IF S = {} THEN <<>>
    ELSE LET least == CHOOSE x \in S : \A y \in S : PairLe(x, y)
         IN  <<least>> \o KeysInOrder(S \ {least})

RECURSIVE BiasInner(_, _, _, _, _)
\* `for ((i, j1), n) in other.matrix.iter()` of the bias, for the entry
\* (j2, m) of self.bias; ks are the keys still to visit
BiasInner(acc, om, ks, j2, m) ==
    IF ks = <<>> THEN acc
    ELSE BiasInner(
             IF Head(ks)[2] = j2 /\ (m * om[Head(ks)]) % Byte # 0
             THEN entry_add(acc, Head(ks)[1], (m * om[Head(ks)]) % Byte)
             ELSE acc,
             om, Tail(ks), j2, m)

RECURSIVE BiasOuter(_, _, _, _)
\* `for (j2, m) in self.bias`: the products with other.matrix and then
\* "adding bias itself"
BiasOuter(acc, sb, om, ks) ==
    IF ks = <<>> THEN acc
    ELSE BiasOuter(
             entry_add(BiasInner(acc, om, KeysInOrder(DOMAIN om),
                                 Head(ks)[1], sb[Head(ks)[1]]),
                       Head(ks)[1], sb[Head(ks)[1]]),
             sb, om, Tail(ks))

RECURSIVE MatInner(_, _, _, _, _)
\* `for ((j2, k), m) in other.matrix.iter()` of the matrix, for the entry
\* ((i, j1), n) of self.matrix
MatInner(acc, om, ks, key, n) ==
    IF ks = <<>> THEN acc
    ELSE MatInner(
             IF key[2] = Head(ks)[1] /\ (om[Head(ks)] * n) % Byte # 0
             THEN entry_add(acc, <<key[1], Head(ks)[2]>>,
                            (om[Head(ks)] * n) % Byte)
             ELSE acc,
             om, Tail(ks), key, n)

RECURSIVE MatOuter(_, _, _, _)
\* `for ((i, j1), n) in self.matrix.iter()`
MatOuter(acc, sm, om, ks) ==
    IF ks = <<>> THEN acc
    ELSE MatOuter(MatInner(acc, om, KeysInOrder(DOMAIN om), Head(ks),
                           sm[Head(ks)]),
                  sm, om, Tail(ks))

RECURSIVE MatChain(_, _, _)
\* one half of `for ((i, k), n) in self.matrix.into_iter().chain(..)`: the
\* entries of map mx added to the matrix
MatChain(acc, mx, ks) ==
    IF ks = <<>> THEN acc
    ELSE MatChain(entry_add(acc, Head(ks), mx[Head(ks)]), mx, Tail(ks))

\* Affine::combine
combine(slf, oth) ==
    [matrix |->
        MatChain(MatChain(MatOuter(<<>>, slf.matrix, oth.matrix,
                                   KeysInOrder(DOMAIN slf.matrix)),
                          slf.matrix, KeysInOrder(DOMAIN slf.matrix)),
                 oth.matrix, KeysInOrder(DOMAIN oth.matrix)),
     bias |->
        BiasOuter(oth.bias, slf.bias, oth.matrix,
                  KeysInOrder({<<k, k>> : k \in DOMAIN slf.bias}))]

(***************************************************************************)
(* Results of Engine::step.  st is Running, Halted, NeedInput, HasOutput   *)
(* or MemNegativeOut, or Panic when the step panics; byte is the payload   *)
(* of HasOutput.                                                           *)
(***************************************************************************)
Result(e, s) == [eng |-> e, st |-> s, byte |-> 0]

HasOutput(e, v) == [eng |-> e, st |-> "HasOutput", byte |-> v]

(***************************************************************************)
(* Raw engine (src/engine/raw.rs).  The pending input is a sequence of at  *)
(* most one byte (Option<u8>).                                             *)
(***************************************************************************)
\* ProgrammableEngine::new
raw_new == [ip |-> 0, mem |-> <<>>, mp |-> 0, input |-> <<>>]

RECURSIVE ScanForward(_, _, _)
\* the while loop of OpenLoop: the ip at which count reaches 0, or -1 when
\* program[ip] goes out of range
ScanForward(code, ip, count) ==
    IF count = 0 THEN ip
    ELSE IF ip + 1 >= Len(code) THEN -1
    ELSE ScanForward(code, ip + 1,
             CASE code[ip + 2] = "[" -> count + 1
               [] code[ip + 2] = "]" -> count - 1
               [] OTHER -> count)

RECURSIVE ScanBackward(_, _, _)
\* the while loop of CloseLoop: the ip at which count reaches 0, or -1 when
\* ip -= 1 goes below zero
ScanBackward(code, ip, count) ==
    IF count = 0 THEN ip
    ELSE IF ip = 0 THEN -1
    ELSE ScanBackward(code, ip - 1,
             CASE code[ip] = "[" -> count - 1
               [] code[ip] = "]" -> count + 1
               [] OTHER -> count)

\* mem_curr / mem_curr_mut return Err(MemNegativeOut)
mem_curr_err(e) == e.mp < 0

\* the arms of the match of Engine::step, one per instruction
raw_shift_right(e) == Result([e EXCEPT !.mp = @ + 1, !.ip = @ + 1], "Running")

raw_shift_left(e) == Result([e EXCEPT !.mp = @ - 1, !.ip = @ + 1], "Running")

\* the Add arm moving on to the next instruction although the access failed
raw_add_skip(e) ==
    IF e.mp < 0 THEN Result([e EXCEPT !.ip = @ + 1], "MemNegativeOut")
    ELSE Result([e EXCEPT
             !.mem = mem_write(@, e.mp, (mem_get(e.mem, e.mp) + 1) % Byte),
             !.ip = @ + 1], "Running")

raw_add(e) ==
    IF mem_curr_err(e) THEN Result(e, "MemNegativeOut")
    ELSE Result([e EXCEPT
             !.mem = mem_write(@, e.mp, (mem_get(e.mem, e.mp) + 1) % Byte),
             !.ip = @ + 1], "Running")

raw_sub(e) ==
    IF mem_curr_err(e) THEN Result(e, "MemNegativeOut")
    ELSE Result([e EXCEPT
             !.mem = mem_write(@, e.mp,
                               (mem_get(e.mem, e.mp) + Byte - 1) % Byte),
             !.ip = @ + 1], "Running")

\* the Output arm returning before `self.ip += 1`
raw_output_stay(e) ==
    IF e.mp < 0 THEN Result(e, "MemNegativeOut")
    ELSE HasOutput(e, mem_get(e.mem, e.mp))

raw_output(e) ==
    IF mem_curr_err(e) THEN Result(e, "MemNegativeOut")
    ELSE HasOutput([e EXCEPT !.ip = @ + 1], mem_get(e.mem, e.mp))

\* the Input arm reading the slot without taking the byte out of it
raw_input_kept(e) ==
    IF e.input = <<>> THEN Result(e, "NeedInput")
    ELSE IF e.mp < 0 THEN Result(e, "MemNegativeOut")
    ELSE Result([e EXCEPT !.mem = mem_write(@, e.mp, e.input[1]),
                          !.ip = @ + 1], "Running")

\* input.take() empties the slot before mem_curr_mut()? can fail
raw_input(e) ==
    IF e.input = <<>> THEN Result(e, "NeedInput")
    ELSE IF mem_curr_err(e)
    THEN Result([e EXCEPT !.input = <<>>], "MemNegativeOut")
    ELSE Result([e EXCEPT !.input = <<>>,
                          !.mem = mem_write(@, e.mp, e.input[1]),
                          !.ip = @ + 1], "Running")

\* the ip left on the bracket the scan ended at, the final `ip += 1` left
\* out
Jumped_at(e, j) ==
    IF j = -1 THEN Result(e, "Panic")
    ELSE Result([e EXCEPT !.ip = j], "Running")

\* the ip after a bracket scan ended at j, or a panic
Jumped(e, j) ==
    IF j = -1 THEN Result(e, "Panic")
    ELSE Result([e EXCEPT !.ip = j + 1], "Running")

raw_open_loop(e, code) ==
    IF mem_curr_err(e) THEN Result(e, "MemNegativeOut")
    ELSE IF mem_get(e.mem, e.mp) = 0
    THEN Jumped(e, ScanForward(code, e.ip, 1))
    ELSE Result([e EXCEPT !.ip = @ + 1], "Running")

raw_close_loop(e, code) ==
    IF mem_curr_err(e) THEN Result(e, "MemNegativeOut")
    ELSE IF mem_get(e.mem, e.mp) # 0
    THEN Jumped(e, ScanBackward(code, e.ip, 1))
    ELSE Result([e EXCEPT !.ip = @ + 1], "Running")

\* step that rewinds a program that has ended, for the next run
raw_step_rewind(e, code) ==
    IF e.ip = Len(code) THEN Result([e EXCEPT !.ip = 0], "Halted")
    ELSE IF e.ip > Len(code) THEN Result(e, "Panic")
    ELSE CASE code[e.ip + 1] = ">" -> raw_shift_right(e)
           [] code[e.ip + 1] = "<" -> raw_shift_left(e)
           [] code[e.ip + 1] = "+" -> raw_add(e)
           [] code[e.ip + 1] = "-" -> raw_sub(e)
           [] code[e.ip + 1] = "." -> raw_output(e)
           [] code[e.ip + 1] = "," -> raw_input(e)
           [] code[e.ip + 1] = "[" -> raw_open_loop(e, code)
           [] code[e.ip + 1] = "]" -> raw_close_loop(e, code)

\* Engine::step of the raw engine e running program code
raw_step(e, code) ==
    IF e.ip = Len(code) THEN Result(e, "Halted")
    ELSE IF e.ip > Len(code) THEN Result(e, "Panic")
    ELSE CASE code[e.ip + 1] = ">" -> raw_shift_right(e)
           [] code[e.ip + 1] = "<" -> raw_shift_left(e)
           [] code[e.ip + 1] = "+" -> raw_add(e)
           [] code[e.ip + 1] = "-" -> raw_sub(e)
           [] code[e.ip + 1] = "." -> raw_output(e)
           [] code[e.ip + 1] = "," -> raw_input(e)
           [] code[e.ip + 1] = "[" -> raw_open_loop(e, code)
           [] code[e.ip + 1] = "]" -> raw_close_loop(e, code)

(***************************************************************************)
(* IR engine (src/engine/ir.rs).  A frame is a block and a position.       *)
(***************************************************************************)
Frame(b, p) == [blk |-> b, pos |-> p]

\* ProgrammableEngine::new
ir_new(block) ==
    [stack |-> <<Frame(block, 0)>>, mem |-> <<>>, mp |-> 0, input |-> <<>>]

RECURSIVE PopFinished_next(_)
\* the while loop of advance moving the enclosing frame past the Loop it
\* puts the body back into: the loop is left after one round
PopFinished_next(stack) ==
    LET top == stack[Len(stack)]
    IN  IF Len(stack) > 1 /\ Len(top.blk) = top.pos
        THEN LET rest == SubSeq(stack, 1, Len(stack) - 1)
                 sup == rest[Len(rest)]
             IN  IF sup.pos >= Len(sup.blk)
                    \/ sup.blk[sup.pos + 1].tag # "Loop"
                 THEN [stack |-> rest, panic |-> TRUE]
                 ELSE PopFinished_next([rest EXCEPT
                          ![Len(rest)].blk[sup.pos + 1].body = top.blk,
                          ![Len(rest)].pos = @ + 1])
        ELSE [stack |-> stack, panic |-> FALSE]

RECURSIVE PopFinished(_)
\* the while loop of advance: pops the finished frames and puts each body
\* back into its Loop; panic when the enclosing node is not a Loop
PopFinished(stack) ==
    LET top == stack[Len(stack)]
    IN  IF Len(stack) > 1 /\ Len(top.blk) = top.pos
        THEN LET rest == SubSeq(stack, 1, Len(stack) - 1)
                 sup == rest[Len(rest)]
             IN  IF sup.pos >= Len(sup.blk)
                    \/ sup.blk[sup.pos + 1].tag # "Loop"
                 THEN [stack |-> rest, panic |-> TRUE]
                 ELSE PopFinished([rest EXCEPT
                          ![Len(rest)].blk[sup.pos + 1].body = top.blk])
        ELSE [stack |-> stack, panic |-> FALSE]

\* advance
advance(stack) == PopFinished([stack EXCEPT ![Len(stack)].pos = @ + 1])

\* the engine e and result s after advance returned a
AfterAdvance(e, a, s, v) ==
    IF a.panic THEN Result(e, "Panic")
    ELSE [eng |-> [e EXCEPT !.stack = a.stack], st |-> s, byte |-> v]

\* advance(stack) at the end of an arm of step that returns s
Advanced(e, s, v) == AfterAdvance(e, advance(e.stack), s, v)

\* the bound check made on mp alone, the offset left out
get_mem_err_mp(e, offset) == e.mp < 0

\* get_mem / set_mem return Err(MemNegativeOut)
get_mem_err(e, offset) == e.mp + offset < 0

\* the frame on top of the stack and the node at its pos
TopFrame(e) == e.stack[Len(e.stack)]

\* the arms of the match of Engine::step, one per node variant
ir_shift(e, n) == Advanced([e EXCEPT !.mp = @ + n.amount], "Running", 0)

ir_add(e, n) ==
    IF get_mem_err(e, n.offset) THEN Result(e, "MemNegativeOut")
    ELSE Advanced([e EXCEPT !.mem = mem_set(@, e.mp + n.offset,
                      (mem_get(e.mem, e.mp + n.offset) + n.amount) % Byte)],
                  "Running", 0)

ir_output(e, n) ==
    IF get_mem_err(e, n.offset) THEN Result(e, "MemNegativeOut")
    ELSE Advanced(e, "HasOutput", mem_get(e.mem, e.mp + n.offset))

\* the Input arm taking a pending byte 0 for an empty slot
ir_input_zero(e, n) ==
    IF e.input = <<>> \/ e.input = <<0>> THEN Result(e, "NeedInput")
    ELSE IF e.mp + n.offset < 0
    THEN Result([e EXCEPT !.input = <<>>], "MemNegativeOut")
    ELSE Advanced([e EXCEPT !.input = <<>>,
                            !.mem = mem_set(@, e.mp + n.offset, e.input[1])],
                  "Running", 0)

\* input.take() empties the slot before set_mem(..)? can fail
ir_input(e, n) ==
    IF e.input = <<>> THEN Result(e, "NeedInput")
    ELSE IF get_mem_err(e, n.offset)
    THEN Result([e EXCEPT !.input = <<>>], "MemNegativeOut")
    ELSE Advanced([e EXCEPT !.input = <<>>,
                            !.mem = mem_set(@, e.mp + n.offset, e.input[1])],
                  "Running", 0)

\* the Loop arm pushing a clone of the body, the tree left as it is
ir_loop_clone(e, n) ==
    IF get_mem_err(e, n.offset) THEN Result(e, "MemNegativeOut")
    ELSE IF mem_get(e.mem, e.mp + n.offset) # 0
    THEN Result([e EXCEPT !.stack = Append(@, Frame(n.body, 0))], "Running")
    ELSE Advanced(e, "Running", 0)

\* the loop body is moved out of the tree into the new frame
ir_loop(e, n) ==
    IF get_mem_err(e, n.offset) THEN Result(e, "MemNegativeOut")
    ELSE IF mem_get(e.mem, e.mp + n.offset) # 0
    THEN Result([e EXCEPT !.stack =
             Append([@ EXCEPT ![Len(@)].blk[TopFrame(e).pos + 1].body = <<>>],
                    Frame(n.body, 0))], "Running")
    ELSE Advanced(e, "Running", 0)

ir_noop(e) == Advanced(e, "Running", 0)

\* the match of Engine::step on the current node n
ir_node(e, n) ==
    CASE n.tag = "Shift" -> ir_shift(e, n)
      [] n.tag = "Add" -> ir_add(e, n)
      [] n.tag = "Output" -> ir_output(e, n)
      [] n.tag = "Input" -> ir_input(e, n)
      [] n.tag = "Loop" -> ir_loop(e, n)
      [] n.tag = "Noop" -> ir_noop(e)

\* Engine::step of the IR engine e
ir_step(e) ==
    IF Len(e.stack) = 1 /\ TopFrame(e).pos = Len(TopFrame(e).blk)
    THEN Result(e, "Halted")
    ELSE IF TopFrame(e).pos >= Len(TopFrame(e).blk) THEN Result(e, "Panic")
    ELSE ir_node(e, TopFrame(e).blk[TopFrame(e).pos + 1])

(***************************************************************************)
(* Engine::give_input and Engine::try_give_input (the same in both         *)
(* engines): the engine afterwards and the value returned.                 *)
(***************************************************************************)
\* Engine::input
input(e) == e.input

\* give_input that queues the byte behind the pending one
give_input_queue(e, b) ==
    [eng |-> [e EXCEPT !.input = Append(@, b)], ret |-> e.input]

\* give_input: ret is the Option returned
give_input(e, b) == [eng |-> [e EXCEPT !.input = <<b>>], ret |-> e.input]

\* try_give_input that reports the pending byte and yet replaces it
try_give_input_over(e, b) ==
    [eng |-> [e EXCEPT !.input = <<b>>], ok |-> e.input = <<>>, err |-> e.input]

\* try_give_input: ok is whether Ok(()) is returned, err the byte of Err
try_give_input(e, b) ==
    IF e.input # <<>> THEN [eng |-> e, ok |-> FALSE, err |-> e.input]
    ELSE [eng |-> [e EXCEPT !.input = <<b>>], ok |-> TRUE, err |-> <<>>]

(***************************************************************************)
(* Engine::run (the provided method of the trait, the same for both        *)
(* engines): `loop { match self.step() { .. } }`.  The result holds the    *)
(* engine, the value returned (st, byte) and the number of steps made; st  *)
(* is "Cut" for a run followed for MaxRunSteps steps without returning.    *)
(***************************************************************************)
RECURSIVE raw_run_loop(_, _, _)
\* the match of run on the result r of step number n, with the arm
\* Stopped(state) returning Err too
raw_run_more(r, code, n) ==
    IF r.st # "Running"
    THEN [eng |-> raw_step(r.eng, code).eng, st |-> r.st, byte |-> r.byte,
          steps |-> n]
    ELSE IF n >= MaxRunSteps
    THEN [eng |-> r.eng, st |-> "Cut", byte |-> 0, steps |-> n]
    ELSE raw_run_loop(r.eng, code, n)

\* the match of run on the result r of step number n
raw_run_match(r, code, n) ==
    IF r.st # "Running"
    THEN [eng |-> r.eng, st |-> r.st, byte |-> r.byte, steps |-> n]
    ELSE IF n >= MaxRunSteps
    THEN [eng |-> r.eng, st |-> "Cut", byte |-> 0, steps |-> n]
    ELSE raw_run_loop(r.eng, code, n)

\* the loop of run after n steps
raw_run_loop(e, code, n) == raw_run_match(raw_step(e, code), code, n + 1)

\* Engine::run on the raw engine
raw_run(e, code) == raw_run_loop(e, code, 0)

RECURSIVE ir_run_loop(_, _)
\* the match of run on the result r of step number n
ir_run_match(r, n) ==
    IF r.st # "Running"
    THEN [eng |-> r.eng, st |-> r.st, byte |-> r.byte, steps |-> n]
    ELSE IF n >= MaxRunSteps
    THEN [eng |-> r.eng, st |-> "Cut", byte |-> 0, steps |-> n]
    ELSE ir_run_loop(r.eng, n)

\* the loop of run after n steps
ir_run_loop(e, n) == ir_run_match(ir_step(e), n + 1)

\* Engine::run on the IR engine
ir_run(e) == ir_run_loop(e, 0)

(***************************************************************************)
(* The host of tests/examples.rs (test_engine, IO::fingerprint): it builds *)
(* both engines from the same program, drives the raw engine and then the  *)
(* IR engine over the same input stream, and records for each the output   *)
(* bytes and the fingerprint of I/O events.                                *)
(***************************************************************************)
VARIABLES
    prog,       \* the raw Program
    stream,     \* the input stream of the host
    phase,      \* "new", then the engine being driven, then "done"
    irProg,     \* what ir::Program::from_raw returned for prog
    rawEng,     \* the raw engine
    rawHost,    \* what the host recorded while driving the raw engine
    irEng,      \* the IR engine
    irHost,     \* what the host recorded while driving the IR engine
    optIn,      \* the Block that Block::optimize was first called on
    optBlk,     \* self.0 of the Block being optimized
    optChanged, \* the flag `changed` of Block::optimize
    optRepeats, \* the counter `repeats` of Block::optimize
    optPc,      \* "idle", "loop" inside Block::optimize, "done" after it
    optRet,     \* the values the calls of Block::optimize returned
    optFirst,   \* the Block as the first call left it
    optCut,     \* a nested fixed-point loop was cut off at MaxPasses
    refEng,     \* an IR engine running optIn as it was before optimization
    refHost,    \* what the host recorded while driving refEng
    text,       \* a source text: the code points of its characters
    parsed,     \* what the last construction of a raw Program returned
    memA,       \* a Memory
    memB,       \* another Memory
    shadow,     \* per index, the value last written to memA (0 if none)
    node0,      \* an IR Node
    node,       \* node0 after the calls of Node::shifted made so far
    shiftSum,   \* the sum of the offsets those calls were given
    affA,       \* an Affine memory transformation
    affB,       \* another Affine
    affC        \* what Affine::combine(affA, affB) returned, in a sequence

hostVars == <<prog, stream, phase, irProg, rawEng, rawHost, irEng, irHost>>

optVars ==
    <<optIn, optBlk, optChanged, optRepeats, optPc, optRet, optFirst, optCut>>

refVars == <<refEng, refHost>>

libVars == <<text, parsed, memA, memB, shadow, node0, node, shiftSum>>

linVars == <<affA, affB, affC>>

vars == <<hostVars, optVars, refVars, libVars, linVars>>

\* the input streams enumerated
Streams == UNION {[1..n -> InputBytes] : n \in 0..MaxInput}

\* res, byte: the last result of step ("None" before the first, "Given"
\* after a byte was handed over); given: bytes of the stream handed over;
\* out, fp: output bytes and I/O events so far; term: the first of Halted,
\* MemNegativeOut or Panic the engine reported; ret, ok: what the last
\* give_input / try_give_input returned
HostInit ==
    [res |-> "None", byte |-> 0, given |-> 0, out |-> <<>>, fp |-> <<>>,
     term |-> "None", ret |-> <<>>, ok |-> TRUE]

Terminal == {"Halted", "MemNegativeOut", "Panic"}

\* the host's record after a step that returned r
AfterStep(h, r) ==
    [h EXCEPT !.res = r.st,
              !.byte = r.byte,
              !.out = IF r.st = "HasOutput" THEN Append(@, r.byte) ELSE @,
              !.fp = IF r.st = "HasOutput" THEN Append(@, "Output") ELSE @,
              !.term = IF @ = "None" /\ r.st \in Terminal THEN r.st ELSE @]

\* the host's record after handing over the next byte of the stream
AfterGive(h, ret, ok) ==
    [h EXCEPT !.res = "Given", !.given = @ + 1, !.fp = Append(@, "Input"),
              !.ret = ret, !.ok = ok]

\* the host may step the engine: the bounds of the run are not reached
\* and the engine has not panicked
MayStep(e, h) ==
    h.res # "Panic" /\ Len(h.fp) < MaxEvents /\ e.mp <= MaxMp

\* the host has a byte to hand over in response to NeedInput
MayGive(h) == h.res = "NeedInput" /\ h.given < Len(stream)

\* the host stops driving the engine: it halted or failed, or it needs
\* input and the stream is exhausted
MayFinish(h) ==
    h.term # "None" \/ (h.res = "NeedInput" /\ h.given = Len(stream))

\* no Block is being optimized
OptIdle ==
    /\ optIn = <<>>
    /\ optBlk = <<>>
    /\ optChanged = FALSE
    /\ optRepeats = 0
    /\ optPc = "idle"
    /\ optRet = <<>>
    /\ optFirst = <<>>
    /\ optCut = FALSE

\* no Affine is combined: both are the identity
LinIdle ==
    /\ affA = affine_add(0, 0)
    /\ affB = affine_add(0, 0)
    /\ affC = <<>>

\* nothing is parsed, no Memory is written, no Node is shifted
LibIdle ==
    /\ text = <<>>
    /\ parsed = [via |-> "none", ok |-> TRUE, code |-> <<>>]
    /\ memA = <<>>
    /\ memB = <<>>
    /\ shadow = <<>>
    /\ node0 = Noop
    /\ node = Noop
    /\ shiftSum = 0
    /\ LinIdle

\* no engine is built yet
EnginesIdle ==
    /\ phase = "new"
    /\ irProg = [panic |-> FALSE, cut |-> FALSE, body |-> <<>>]
    /\ rawEng = raw_new
    /\ rawHost = HostInit
    /\ irEng = ir_new(<<>>)
    /\ irHost = HostInit
    /\ refEng = ir_new(<<>>)
    /\ refHost = HostInit

\* a stream is enumerated only for a program that can read it
Init ==
    /\ prog \in RawPrograms
    /\ stream \in Streams
    /\ (\A i \in 1..Len(prog) : prog[i] # ",") => stream = <<>>
    /\ EnginesIdle
    /\ OptIdle
    /\ LibIdle

\* ProgrammableEngine::new_from_raw for both engines
NewEngines ==
    /\ phase = "new"
    /\ phase' = "raw"
    /\ irProg' = from_raw(prog)
    /\ rawEng' = raw_new
    /\ irEng' = ir_new(IF irProg'.panic THEN <<>> ELSE irProg'.body)
    /\ irHost' = [irHost EXCEPT
                    !.term = IF irProg'.panic THEN "Panic" ELSE @,
                    !.res = IF irProg'.panic THEN "Panic" ELSE @]
    /\ UNCHANGED <<optVars, refVars, libVars, linVars>>
    /\ UNCHANGED <<prog, stream, rawHost>>

\* Engine::step on the raw engine
RawStep ==
    /\ phase = "raw"
    /\ MayStep(rawEng, rawHost)
    /\ LET r == raw_step(rawEng, prog)
       IN  /\ rawEng' = r.eng
           /\ rawHost' = AfterStep(rawHost, r)
    /\ UNCHANGED <<optVars, refVars, libVars, linVars>>
    /\ UNCHANGED <<prog, stream, phase, irProg, irEng, irHost>>

\* Engine::give_input on the raw engine, in response to NeedInput
RawGiveInput ==
    /\ phase = "raw"
    /\ MayGive(rawHost)
    /\ LET g == give_input(rawEng, stream[rawHost.given + 1])
       IN  /\ rawEng' = g.eng
           /\ rawHost' = AfterGive(rawHost, g.ret, TRUE)
    /\ UNCHANGED <<optVars, refVars, libVars, linVars>>
    /\ UNCHANGED <<prog, stream, phase, irProg, irEng, irHost>>

\* Engine::try_give_input on the raw engine, in response to NeedInput
RawTryGiveInput ==
    /\ phase = "raw"
    /\ MayGive(rawHost)
    /\ LET g == try_give_input(rawEng, stream[rawHost.given + 1])
       IN  /\ rawEng' = g.eng
           /\ rawHost' = AfterGive(rawHost, g.err, g.ok)
    /\ UNCHANGED <<optVars, refVars, libVars, linVars>>
    /\ UNCHANGED <<prog, stream, phase, irProg, irEng, irHost>>

\* the host leaves the loop that drives the raw engine
RawFinish ==
    /\ phase = "raw"
    /\ MayFinish(rawHost)
    /\ phase' = "ir"
    /\ UNCHANGED <<optVars, refVars, libVars, linVars>>
    /\ UNCHANGED <<prog, stream, irProg, rawEng, rawHost, irEng, irHost>>

\* Engine::step on the IR engine
IrStep ==
    /\ phase = "ir"
    /\ MayStep(irEng, irHost)
    /\ LET r == ir_step(irEng)
       IN  /\ irEng' = r.eng
           /\ irHost' = AfterStep(irHost, r)
    /\ UNCHANGED <<optVars, refVars, libVars, linVars>>
    /\ UNCHANGED <<prog, stream, phase, irProg, rawEng, rawHost>>

\* Engine::give_input on the IR engine, in response to NeedInput
IrGiveInput ==
    /\ phase = "ir"
    /\ MayGive(irHost)
    /\ LET g == give_input(irEng, stream[irHost.given + 1])
       IN  /\ irEng' = g.eng
           /\ irHost' = AfterGive(irHost, g.ret, TRUE)
    /\ UNCHANGED <<optVars, refVars, libVars, linVars>>
    /\ UNCHANGED <<prog, stream, phase, irProg, rawEng, rawHost>>

\* Engine::try_give_input on the IR engine, in response to NeedInput
IrTryGiveInput ==
    /\ phase = "ir"
    /\ MayGive(irHost)
    /\ LET g == try_give_input(irEng, stream[irHost.given + 1])
       IN  /\ irEng' = g.eng
           /\ irHost' = AfterGive(irHost, g.err, g.ok)
    /\ UNCHANGED <<optVars, refVars, libVars, linVars>>
    /\ UNCHANGED <<prog, stream, phase, irProg, rawEng, rawHost>>

\* the host leaves the loop that drives the IR engine
IrFinish ==
    /\ phase = "ir"
    /\ MayFinish(irHost)
    /\ phase' = "done"
    /\ UNCHANGED <<optVars, refVars, libVars, linVars>>
    /\ UNCHANGED <<prog, stream, irProg, rawEng, rawHost, irEng, irHost>>

Next ==
    \/ NewEngines
    \/ RawStep
    \/ RawGiveInput
    \/ RawTryGiveInput
    \/ RawFinish
    \/ IrStep
    \/ IrGiveInput
    \/ IrTryGiveInput
    \/ IrFinish

Spec == Init /\ [][Next]_vars

(***************************************************************************)
(* Block::optimize on its own, pass by pass: the Blocks enumerated have at *)
(* most MaxNodes nodes, nested ones included, and loops nested to any      *)
(* depth.  optimize is called twice on each.                               *)
(***************************************************************************)
OptAtoms ==
    {Noop, ShiftNode(1), ShiftNode(-1), AddNode(1, 0), AddNode(255, 0),
     AddNode(1, 1), OutputNode(0), InputNode(0)}

RECURSIVE BlocksOfSize(_)
\* the nodes that count n nodes: an atom, or a Loop around n - 1 nodes
NodesOfSize(n) ==
    IF n = 1 THEN OptAtoms \cup {LoopNode(<<>>, 0)}
    ELSE {LoopNode(b, 0) : b \in BlocksOfSize(n - 1)}

\* the Blocks that count n nodes
BlocksOfSize(n) ==
    IF n = 0 THEN {<<>>}
    ELSE UNION {{<<h>> \o t : h \in NodesOfSize(k), t \in BlocksOfSize(n - k)} :
                   k \in 1..n}

OptBlocks == UNION {BlocksOfSize(n) : n \in 0..MaxNodes}

InitOpt ==
    /\ optIn \in OptBlocks
    /\ optBlk = optIn
    /\ optChanged = FALSE
    /\ optRepeats = 0
    /\ optPc = "idle"
    /\ optRet = <<>>
    /\ optFirst = <<>>
    /\ optCut = FALSE
    /\ prog = <<>>
    /\ stream = <<>>
    /\ EnginesIdle
    /\ LibIdle

\* Block::optimize is called: `let mut changed = true; let mut repeats = 0`
OptBegin ==
    /\ optPc \in {"idle", "done"}
    /\ Len(optRet) < 2
    /\ optPc' = "loop"
    /\ optChanged' = TRUE
    /\ optRepeats' = 0
    /\ UNCHANGED <<optIn, optBlk, optRet, optFirst, optCut>>
    /\ UNCHANGED <<hostVars, refVars, libVars, linVars>>

\* the flag and the nodes after one pass p of the while loop
OptAfterPass(p) ==
    /\ optBlk' = p.nodes
    /\ optChanged' = p.changed
    /\ optCut' = (optCut \/ p.cut)

\* one execution of the body of `while changed` of Block::optimize; the
\* model follows a call for MaxPasses passes
OptPass ==
    /\ optPc = "loop"
    /\ optChanged
    /\ optRepeats < MaxPasses
    /\ optRepeats' = optRepeats + 1
    /\ OptAfterPass(optimize_pass(optBlk))
    /\ UNCHANGED <<optIn, optPc, optRet, optFirst>>
    /\ UNCHANGED <<hostVars, refVars, libVars, linVars>>

\* the while loop ends and Block::optimize returns `repeats > 1`
OptReturn ==
    /\ optPc = "loop"
    /\ ~optChanged
    /\ optPc' = "done"
    /\ optRet' = Append(optRet, optRepeats > 1)
    /\ optFirst' = IF optRet = <<>> THEN optBlk ELSE optFirst
    /\ UNCHANGED <<optIn, optBlk, optChanged, optRepeats, optCut>>
    /\ UNCHANGED <<hostVars, refVars, libVars, linVars>>

NextOpt ==
    \/ OptBegin
    \/ OptPass
    \/ OptReturn

SpecOpt == InitOpt /\ [][NextOpt]_vars

\* OptPass is enabled (it always changes optRepeats)
OptPassEnabled == optPc = "loop" /\ optChanged /\ optRepeats < MaxPasses

\* a call of Block::optimize runs on: nothing but the loop itself stops it.
\* The last conjunct is WF_vars(OptPass) with ENABLED written out.
SpecOptFair ==
    /\ SpecOpt
    /\ WF_vars(OptBegin)
    /\ WF_vars(OptReturn)
    /\ ([]<>(~OptPassEnabled) \/ []<><<OptPass>>_vars)

(***************************************************************************)
(* A Block before and after Block::optimize, each run by an IR engine from *)
(* the same starting state (mp, tape, input stream).                       *)
(***************************************************************************)
\* the tapes and pointers an engine is started with
StartTapes == {<<>>, <<1>>}

StartMps == {0, 1}

\* an IR engine about to run block from the starting state
ir_started(block, tape, mp) == [ir_new(block) EXCEPT !.mem = tape, !.mp = mp]

\* the optimizer's variables after Block::optimize returned o
Optimized(o) ==
    /\ optBlk = o.blk
    /\ optRet = <<o.changed>>
    /\ optCut = o.cut
    /\ optFirst = o.blk
    /\ optChanged = FALSE
    /\ optRepeats = 0
    /\ optPc = "done"

InitExec ==
    /\ optIn \in OptBlocks
    /\ Optimized(optimize(optIn))
    /\ prog = <<>>
    /\ stream \in Streams
    /\ (\A i \in 1..Len(optIn) : ~does_input_anywhere(optIn[i])) => stream = <<>>
    /\ phase = "ref"
    /\ irProg = [panic |-> FALSE, cut |-> FALSE, body |-> <<>>]
    /\ rawEng = raw_new
    /\ rawHost = HostInit
    /\ \E tape \in StartTapes, mp \in StartMps :
           /\ refEng = ir_started(optIn, tape, mp)
           /\ irEng = ir_started(optBlk, tape, mp)
    /\ refHost = HostInit
    /\ irHost = HostInit
    /\ LibIdle

\* Engine::step on the engine that runs the Block as it was
RefStep ==
    /\ phase = "ref"
    /\ MayStep(refEng, refHost)
    /\ refEng' = ir_step(refEng).eng
    /\ refHost' = AfterStep(refHost, ir_step(refEng))
    /\ UNCHANGED <<hostVars, optVars, libVars, linVars>>

\* Engine::give_input on that engine, in response to NeedInput
RefGiveInput ==
    /\ phase = "ref"
    /\ MayGive(refHost)
    /\ refEng' = give_input(refEng, stream[refHost.given + 1]).eng
    /\ refHost' = AfterGive(refHost, refEng.input, TRUE)
    /\ UNCHANGED <<hostVars, optVars, libVars, linVars>>

\* the host leaves the loop that drives that engine
RefFinish ==
    /\ phase = "ref"
    /\ MayFinish(refHost)
    /\ phase' = "ir"
    /\ UNCHANGED <<prog, stream, irProg, rawEng, rawHost, irEng, irHost>>
    /\ UNCHANGED <<optVars, refVars, libVars, linVars>>

NextExec ==
    \/ RefStep
    \/ RefGiveInput
    \/ RefFinish
    \/ IrStep
    \/ IrGiveInput
    \/ IrTryGiveInput
    \/ IrFinish

SpecExec == InitExec /\ [][NextExec]_vars

(***************************************************************************)
(* Two nodes that Node::commute lets sort_ops exchange, run in the one     *)
(* order and in the other by an IR engine from the same starting state.    *)
(* optIn is the pair as it stands, optBlk the pair exchanged.              *)
(***************************************************************************)
\* the pointers an engine is started with: a Shift may have moved mp below 0
SwapMps == {-1, 0, 1}

\* the nodes a pair is made of: every node of at most MaxNodes nodes
SwapNodes == UNION {NodesOfSize(n) : n \in 1..MaxNodes}

InitSwap ==
    /\ \E n1 \in SwapNodes, n2 \in SwapNodes :
          /\ commute(n1, n2)
          /\ optIn = <<n1, n2>>
          /\ optBlk = <<n2, n1>>
    /\ optRet = <<>>
    /\ optCut = FALSE
    /\ optFirst = <<>>
    /\ optChanged = FALSE
    /\ optRepeats = 0
    /\ optPc = "done"
    /\ prog = <<>>
    /\ stream \in Streams
    /\ (\A i \in 1..Len(optIn) : ~does_input_anywhere(optIn[i])) => stream = <<>>
    /\ phase = "ref"
    /\ irProg = [panic |-> FALSE, cut |-> FALSE, body |-> <<>>]
    /\ rawEng = raw_new
    /\ rawHost = HostInit
    /\ \E tape \in StartTapes, mp \in SwapMps :
           /\ refEng = ir_started(optIn, tape, mp)
           /\ irEng = ir_started(optBlk, tape, mp)
    /\ refHost = HostInit
    /\ irHost = HostInit
    /\ LibIdle

SpecSwap == InitSwap /\ [][NextExec]_vars

(***************************************************************************)
(* A host that hands over the bytes of the stream whenever it likes, with  *)
(* give_input or try_give_input, whether or not the engine asked and       *)
(* whether or not a byte is pending.                                       *)
(***************************************************************************)
FeedPrograms ==
    {code \in UNION {[1..n -> Opcodes] : n \in 0..MaxFeedLen} :
        from_instrs_ok(code)}

InitFeed ==
    /\ prog \in FeedPrograms
    /\ stream \in Streams
    /\ EnginesIdle
    /\ OptIdle
    /\ LibIdle

\* the host has a byte left and an engine to hand it to
MayFeed(h) == h.res # "Panic" /\ h.given < Len(stream)

\* Engine::give_input on the raw engine, at any time
RawFeed ==
    /\ phase = "raw"
    /\ MayFeed(rawHost)
    /\ LET g == give_input(rawEng, stream[rawHost.given + 1])
       IN  /\ rawEng' = g.eng
           /\ rawHost' = AfterGive(rawHost, g.ret, TRUE)
    /\ UNCHANGED <<optVars, refVars, libVars, linVars>>
    /\ UNCHANGED <<prog, stream, phase, irProg, irEng, irHost>>

\* Engine::try_give_input on the raw engine, at any time
RawTryFeed ==
    /\ phase = "raw"
    /\ MayFeed(rawHost)
    /\ LET g == try_give_input(rawEng, stream[rawHost.given + 1])
       IN  /\ rawEng' = g.eng
           /\ rawHost' = AfterGive(rawHost, g.err, g.ok)
    /\ UNCHANGED <<optVars, refVars, libVars, linVars>>
    /\ UNCHANGED <<prog, stream, phase, irProg, irEng, irHost>>

\* Engine::give_input on the IR engine, at any time
IrFeed ==
    /\ phase = "ir"
    /\ MayFeed(irHost)
    /\ LET g == give_input(irEng, stream[irHost.given + 1])
       IN  /\ irEng' = g.eng
           /\ irHost' = AfterGive(irHost, g.ret, TRUE)
    /\ UNCHANGED <<optVars, refVars, libVars, linVars>>
    /\ UNCHANGED <<prog, stream, phase, irProg, rawEng, rawHost>>

\* Engine::try_give_input on the IR engine, at any time
IrTryFeed ==
    /\ phase = "ir"
    /\ MayFeed(irHost)
    /\ LET g == try_give_input(irEng, stream[irHost.given + 1])
       IN  /\ irEng' = g.eng
           /\ irHost' = AfterGive(irHost, g.err, g.ok)
    /\ UNCHANGED <<optVars, refVars, libVars, linVars>>
    /\ UNCHANGED <<prog, stream, phase, irProg, rawEng, rawHost>>

NextFeed ==
    \/ NewEngines
    \/ RawStep
    \/ RawFeed
    \/ RawTryFeed
    \/ RawFinish
    \/ IrStep
    \/ IrFeed
    \/ IrTryFeed
    \/ IrFinish

SpecFeed == InitFeed /\ [][NextFeed]_vars

(***************************************************************************)
(* The IR engine alone, on the IR Program of every raw Program, whether or *)
(* not the raw engine would ever finish on it.                             *)
(***************************************************************************)
\* ir::Engine::new(ir::Program::from_raw(prog))
IrBuild ==
    /\ phase = "new"
    /\ phase' = "ir"
    /\ irProg' = from_raw(prog)
    /\ irEng' = ir_new(IF irProg'.panic THEN <<>> ELSE irProg'.body)
    /\ irHost' = [irHost EXCEPT
                    !.term = IF irProg'.panic THEN "Panic" ELSE @,
                    !.res = IF irProg'.panic THEN "Panic" ELSE @]
    /\ UNCHANGED <<optVars, refVars, libVars, linVars>>
    /\ UNCHANGED <<prog, stream, rawEng, rawHost>>

NextIr ==
    \/ IrBuild
    \/ IrStep
    \/ IrGiveInput
    \/ IrTryGiveInput
    \/ IrFinish

SpecIr == Init /\ [][NextIr]_vars

(***************************************************************************)
(* Two adjacent Loops with the same offset, at the top level or inside an  *)
(* outer Loop, run by an IR engine (optIn), and the same Block with the    *)
(* pair replaced by its first Loop, as collate rewrites it (optBlk).       *)
(***************************************************************************)
\* the bodies of the first Loop: every Block of less than MaxNodes nodes
PairBodies == UNION {BlocksOfSize(n) : n \in 0..(MaxNodes - 1)}

PairOffsets == {0, 1}

InitPair ==
    /\ \E b1 \in PairBodies, b2 \in BlocksOfSize(1), o \in PairOffsets,
          inner \in BOOLEAN :
          /\ optIn = IF inner
                     THEN <<LoopNode(<<LoopNode(b1, o), LoopNode(b2, o)>>, 0)>>
                     ELSE <<LoopNode(b1, o), LoopNode(b2, o)>>
          /\ optBlk = IF inner THEN <<LoopNode(<<LoopNode(b1, o)>>, 0)>>
                      ELSE <<LoopNode(b1, o)>>
    /\ optRet = <<>>
    /\ optCut = FALSE
    /\ optFirst = <<>>
    /\ optChanged = FALSE
    /\ optRepeats = 0
    /\ optPc = "done"
    /\ prog = <<>>
    /\ stream \in Streams
    /\ (\A i \in 1..Len(optIn) : ~does_input_anywhere(optIn[i])) => stream = <<>>
    /\ phase = "ref"
    /\ irProg = [panic |-> FALSE, cut |-> FALSE, body |-> <<>>]
    /\ rawEng = raw_new
    /\ rawHost = HostInit
    /\ \E tape \in StartTapes, mp \in StartMps :
           /\ refEng = ir_started(optIn, tape, mp)
           /\ irEng = ir_started(optBlk, tape, mp)
    /\ refHost = HostInit
    /\ irHost = HostInit
    /\ LibIdle

SpecPair == InitPair /\ [][NextExec]_vars

(***************************************************************************)
(* A Shift followed by a node (optIn) and the window as retard_shifts      *)
(* rewrites it, the node shifted and then the Shift (optBlk), each run by  *)
(* an IR engine from the same starting state.  After the first engine has  *)
(* done its Shift the two engines are stepped together and given the same  *)
(* bytes, so that the cell each is about to touch can be compared.         *)
(***************************************************************************)
\* the amounts of the Shift
RetardShifts == {k \in -MaxShift..MaxShift : k # 0}

\* the nodes that follow the Shift: every node of at most MaxNodes nodes
RetardNodes == UNION {NodesOfSize(n) : n \in 1..MaxNodes}

InitRetard ==
    /\ \E k \in RetardShifts, x \in RetardNodes :
          /\ optIn = <<ShiftNode(k), x>>
          /\ optBlk = retard_shifts(ShiftNode(k), x).nodes
    /\ optRet = <<>>
    /\ optCut = FALSE
    /\ optFirst = <<>>
    /\ optChanged = FALSE
    /\ optRepeats = 0
    /\ optPc = "done"
    /\ prog = <<>>
    /\ stream \in Streams
    /\ (\A i \in 1..Len(optIn) : ~does_input_anywhere(optIn[i])) => stream = <<>>
    /\ phase = "shift"
    /\ irProg = [panic |-> FALSE, cut |-> FALSE, body |-> <<>>]
    /\ rawEng = raw_new
    /\ rawHost = HostInit
    /\ \E tape \in StartTapes, mp \in SwapMps :
           /\ refEng = ir_started(optIn, tape, mp)
           /\ irEng = ir_started(optBlk, tape, mp)
    /\ refHost = HostInit
    /\ irHost = HostInit
    /\ LibIdle

\* Engine::step on the engine that runs the window as it was: its Shift
RetardFirst ==
    /\ phase = "shift"
    /\ refEng' = ir_step(refEng).eng
    /\ refHost' = AfterStep(refHost, ir_step(refEng))
    /\ phase' = "pair"
    /\ UNCHANGED <<prog, stream, irProg, rawEng, rawHost, irEng, irHost>>
    /\ UNCHANGED <<optVars, libVars, linVars>>

\* Engine::step on both engines
RetardStep ==
    /\ phase = "pair"
    /\ irHost.term = "None"
    /\ MayStep(refEng, refHost)
    /\ MayStep(irEng, irHost)
    /\ refEng' = ir_step(refEng).eng
    /\ refHost' = AfterStep(refHost, ir_step(refEng))
    /\ irEng' = ir_step(irEng).eng
    /\ irHost' = AfterStep(irHost, ir_step(irEng))
    /\ UNCHANGED <<prog, stream, phase, irProg, rawEng, rawHost>>
    /\ UNCHANGED <<optVars, libVars, linVars>>

\* Engine::give_input of the same byte on both engines, which asked for it
RetardGive ==
    /\ phase = "pair"
    /\ MayGive(refHost)
    /\ MayGive(irHost)
    /\ refEng' = give_input(refEng, stream[refHost.given + 1]).eng
    /\ refHost' = AfterGive(refHost, refEng.input, TRUE)
    /\ irEng' = give_input(irEng, stream[irHost.given + 1]).eng
    /\ irHost' = AfterGive(irHost, irEng.input, TRUE)
    /\ UNCHANGED <<prog, stream, phase, irProg, rawEng, rawHost>>
    /\ UNCHANGED <<optVars, libVars, linVars>>

\* the host leaves the loop that drives the engines
RetardFinish ==
    /\ phase = "pair"
    /\ MayFinish(refHost)
    /\ MayFinish(irHost)
    /\ phase' = "done"
    /\ UNCHANGED <<prog, stream, irProg, rawEng, rawHost, irEng, irHost>>
    /\ UNCHANGED <<optVars, refVars, libVars, linVars>>

NextRetard ==
    \/ RetardFirst
    \/ RetardStep
    \/ RetardGive
    \/ RetardFinish

SpecRetard == InitRetard /\ [][NextRetard]_vars

(***************************************************************************)
(* Two Adds with the same offset, or two Shifts, run by an IR engine       *)
(* (optIn), and what collate makes of the pair (optBlk) run from the same  *)
(* state.  The Adds take every pair of amounts of a NonZeroU8.             *)
(***************************************************************************)
\* the values of the cell that the Adds are applied to
CollateValues == {0, 255}

CollateOffsets == {0, 1}

\* the pairs that collate merges
CollatePairs ==
    {<<AddNode(a1, o), AddNode(a2, o)>> :
        a1 \in 1..(Byte - 1), a2 \in 1..(Byte - 1), o \in CollateOffsets}
    \cup {<<ShiftNode(k1), ShiftNode(k2)>> :
            k1 \in RetardShifts, k2 \in RetardShifts}

\* the tape whose cell o holds v
CollateTape(o, v) == [i \in 1..(o + 1) |-> IF i = o + 1 THEN v ELSE 0]

InitCollate ==
    /\ optIn \in CollatePairs
    /\ optBlk = collate(optIn[1], optIn[2]).nodes
    /\ optRet = <<>>
    /\ optCut = FALSE
    /\ optFirst = <<>>
    /\ optChanged = FALSE
    /\ optRepeats = 0
    /\ optPc = "done"
    /\ prog = <<>>
    /\ stream = <<>>
    /\ phase = "ref"
    /\ irProg = [panic |-> FALSE, cut |-> FALSE, body |-> <<>>]
    /\ rawEng = raw_new
    /\ rawHost = HostInit
    /\ \E o \in CollateOffsets, v \in CollateValues :
           /\ optIn[1].tag = "Add" => o = optIn[1].offset
           /\ optIn[1].tag = "Shift" => o = 0
           /\ refEng = ir_started(optIn, CollateTape(o, v), 0)
           /\ irEng = ir_started(optBlk, CollateTape(o, v), 0)
    /\ refHost = HostInit
    /\ irHost = HostInit
    /\ LibIdle

\* the host of a Block without Input nodes: it has no byte to give
NextCollate ==
    \/ RefStep
    \/ RefFinish
    \/ IrStep
    \/ IrFinish

SpecCollate == InitCollate /\ [][NextCollate]_vars

(***************************************************************************)
(* The host protocol on a raw Program without loops: the host steps an     *)
(* engine until it halts or fails, and answers every NeedInput with a      *)
(* byte; it never runs out of bytes.                                       *)
(***************************************************************************)
\* the raw Programs without `[` and `]`
LoopFree(code) == \A i \in 1..Len(code) : code[i] \notin {"[", "]"}

InitLive ==
    /\ prog \in RawPrograms
    /\ LoopFree(prog)
    /\ stream = <<>>
    /\ EnginesIdle
    /\ OptIdle
    /\ LibIdle

\* the host steps an engine that has not ended and is not waiting for a byte
LiveMayStep(h) == h.term = "None" /\ h.res # "NeedInput"

\* Engine::step on the raw engine
LiveRawStep ==
    /\ phase = "raw"
    /\ LiveMayStep(rawHost)
    /\ LET r == raw_step(rawEng, prog)
       IN  /\ rawEng' = r.eng
           /\ rawHost' = AfterStep(rawHost, r)
    /\ UNCHANGED <<optVars, refVars, libVars, linVars>>
    /\ UNCHANGED <<prog, stream, phase, irProg, irEng, irHost>>

\* Engine::give_input on the raw engine, in response to NeedInput
LiveRawGive ==
    /\ phase = "raw"
    /\ rawHost.term = "None"
    /\ rawHost.res = "NeedInput"
    /\ \E b \in InputBytes :
          LET g == give_input(rawEng, b)
          IN  /\ rawEng' = g.eng
              /\ rawHost' = AfterGive(rawHost, g.ret, TRUE)
    /\ UNCHANGED <<optVars, refVars, libVars, linVars>>
    /\ UNCHANGED <<prog, stream, phase, irProg, irEng, irHost>>

\* the host leaves the loop that drives the raw engine, which has ended
LiveRawFinish ==
    /\ phase = "raw"
    /\ rawHost.term # "None"
    /\ phase' = "ir"
    /\ UNCHANGED <<optVars, refVars, libVars, linVars>>
    /\ UNCHANGED <<prog, stream, irProg, rawEng, rawHost, irEng, irHost>>

\* Engine::step on the IR engine
LiveIrStep ==
    /\ phase = "ir"
    /\ LiveMayStep(irHost)
    /\ LET r == ir_step(irEng)
       IN  /\ irEng' = r.eng
           /\ irHost' = AfterStep(irHost, r)
    /\ UNCHANGED <<optVars, refVars, libVars, linVars>>
    /\ UNCHANGED <<prog, stream, phase, irProg, rawEng, rawHost>>

\* Engine::give_input on the IR engine, in response to NeedInput
LiveIrGive ==
    /\ phase = "ir"
    /\ irHost.term = "None"
    /\ irHost.res = "NeedInput"
    /\ \E b \in InputBytes :
          LET g == give_input(irEng, b)
          IN  /\ irEng' = g.eng
              /\ irHost' = AfterGive(irHost, g.ret, TRUE)
    /\ UNCHANGED <<optVars, refVars, libVars, linVars>>
    /\ UNCHANGED <<prog, stream, phase, irProg, rawEng, rawHost>>

\* the host leaves the loop that drives the IR engine, which has ended
LiveIrFinish ==
    /\ phase = "ir"
    /\ irHost.term # "None"
    /\ phase' = "done"
    /\ UNCHANGED <<optVars, refVars, libVars, linVars>>
    /\ UNCHANGED <<prog, stream, irProg, rawEng, rawHost, irEng, irHost>>

NextLive ==
    \/ NewEngines
    \/ LiveRawStep
    \/ LiveRawGive
    \/ LiveRawFinish
    \/ LiveIrStep
    \/ LiveIrGive
    \/ LiveIrFinish

SpecLive == InitLive /\ [][NextLive]_vars

\* the host goes on: it builds the engines, and whenever it can step, give
\* a byte or leave a loop it does so.  The first conjunct of fairness is
\* WF_vars(NewEngines) with ENABLED written out.
SpecLiveFair ==
    /\ SpecLive
    /\ ([]<>(phase # "new") \/ []<><<NewEngines>>_vars)
    /\ WF_vars(LiveRawStep)
    /\ WF_vars(LiveRawGive)
    /\ WF_vars(LiveRawFinish)
    /\ WF_vars(LiveIrStep)
    /\ WF_vars(LiveIrGive)
    /\ WF_vars(LiveIrFinish)

(***************************************************************************)
(* save::parse (src/save/mod.rs) on the bytes of a file.  text holds the   *)
(* bytes, parsed the File returned: description is <<>> for None and       *)
(* <<d>> for Some(d).  A file that carries the magic number is a compiled  *)
(* file, whose header and payload are not modelled.                        *)
(***************************************************************************)
\* const MAGIC: b"]bf"
MAGIC == <<93, 98, 102>>

\* the "check for magic number": at least 4 bytes, the first 3 the magic
HasMagic(source) == Len(source) >= 4 /\ SubSeq(source, 1, 3) = MAGIC

\* String::from_utf8_lossy on ASCII bytes and on bytes that no UTF-8
\* sequence holds (0xF8..0xFF), each of which becomes U+FFFD
from_utf8_lossy(bytes) ==
    [i \in 1..Len(bytes) |-> IF bytes[i] < 128 THEN bytes[i] ELSE 65533]

\* char::is_whitespace on the characters enumerated
is_whitespace(c) == c \in {9, 10, 11, 12, 13, 32}

RECURSIVE trim_start(_)
\* str::trim_start
trim_start(s) ==
    IF s # <<>> /\ is_whitespace(Head(s)) THEN trim_start(Tail(s)) ELSE s

RECURSIVE bracket_scan_flat(_, _, _, _)
\* the scan that does not count the brackets opened inside the comment
bracket_scan_flat(s, i, depth, last) ==
    IF i > Len(s) \/ depth = 0 THEN last
    ELSE IF s[i] = 93 THEN bracket_scan_flat(s, i + 1, depth - 1, <<i - 1>>)
    ELSE bracket_scan_flat(s, i + 1, depth, <<>>)

RECURSIVE bracket_scan(_, _, _, _)
\* .scan(1usize, ..).last().flatten() from the character at index i - 1 on:
\* last is the last item the scan gave, <<>> for None and <<idx>> for
\* Some(idx); the scan ends once depth is 0
bracket_scan(s, i, depth, last) ==
    IF i > Len(s) \/ depth = 0 THEN last
    ELSE IF s[i] = 91 THEN bracket_scan(s, i + 1, depth + 1, <<>>)
    ELSE IF s[i] = 93 THEN bracket_scan(s, i + 1, depth - 1, <<i - 1>>)
    ELSE bracket_scan(s, i + 1, depth, <<>>)

\* source[1..end] with end the index found, or source.len()
comment_of(s, last) ==
    SubSeq(s, 2, IF last = <<>> THEN Len(s) ELSE last[1])

\* the "beginner comment" taken as description of a plain source
description_of(source) ==
    IF trim_start(source) # <<>> /\ Head(trim_start(source)) = 91
    THEN <<comment_of(trim_start(source),
                      bracket_scan(trim_start(source), 2, 1, <<>>))>>
    ELSE <<>>

\* save::parse
save_parse(source) ==
    IF HasMagic(source)
    THEN [via |-> "save::parse", content |-> "Compiled", compressed |-> FALSE,
          description |-> <<>>, payload |-> <<>>]
    ELSE [via |-> "save::parse", content |-> "Source", compressed |-> FALSE,
          description |-> description_of(from_utf8_lossy(source)),
          payload |-> from_utf8_lossy(source)]

\* the bytes of the files enumerated: space, `+`, `[`, `]`, `b`, `f`, 0xFF
SaveBytes == {32, 43, 91, 93, 98, 102, 255}

SaveFiles == UNION {[1..n -> SaveBytes] : n \in 0..MaxFileLen}

InitSave ==
    /\ text \in SaveFiles
    /\ parsed = [via |-> "none", ok |-> TRUE, code |-> <<>>]
    /\ memA = <<>>
    /\ memB = <<>>
    /\ shadow = <<>>
    /\ node0 = Noop
    /\ node = Noop
    /\ shiftSum = 0
    /\ LinIdle
    /\ prog = <<>>
    /\ stream = <<>>
    /\ EnginesIdle
    /\ OptIdle

\* save::parse(text)
SaveParse ==
    /\ parsed.via = "none"
    /\ parsed' = save_parse(text)
    /\ UNCHANGED <<text, memA, memB, shadow, node0, node, shiftSum, linVars>>
    /\ UNCHANGED <<hostVars, optVars, refVars>>

SpecSave == InitSave /\ [][SaveParse]_vars

(***************************************************************************)
(* Two Affine transformations of the same cell, both made by Affine::set   *)
(* or both by Affine::add with any two bytes, and Affine::combine of them. *)
(***************************************************************************)
LinPositions == {-1, 0}

InitLin ==
    /\ \E p \in LinPositions, a \in 0..(Byte - 1), b \in 0..(Byte - 1) :
          \/ affA = affine_set(p, a) /\ affB = affine_set(p, b)
          \/ affA = affine_add(p, a) /\ affB = affine_add(p, b)
    /\ affC = <<>>
    /\ text = <<>>
    /\ parsed = [via |-> "none", ok |-> TRUE, code |-> <<>>]
    /\ memA = <<>>
    /\ memB = <<>>
    /\ shadow = <<>>
    /\ node0 = Noop
    /\ node = Noop
    /\ shiftSum = 0
    /\ prog = <<>>
    /\ stream = <<>>
    /\ EnginesIdle
    /\ OptIdle

\* Affine::combine(affA, affB)
Combine ==
    /\ affC = <<>>
    /\ affC' = <<combine(affA, affB)>>
    /\ UNCHANGED <<affA, affB>>
    /\ UNCHANGED <<hostVars, optVars, refVars, libVars>>

SpecLin == InitLin /\ [][Combine]_vars

(***************************************************************************)
(* The host of tests/examples.rs as it is written: it drives each engine   *)
(* with Engine::run, not step by step.                                     *)
(***************************************************************************)
\* the raw engine and the host's record after run returned r
RawRan(r) ==
    /\ r.st # "Cut"
    /\ rawEng' = r.eng
    /\ rawHost' = AfterStep(rawHost, r)

\* Engine::run on the raw engine
RawRun ==
    /\ phase = "raw"
    /\ MayStep(rawEng, rawHost)
    /\ RawRan(raw_run(rawEng, prog))
    /\ UNCHANGED <<optVars, refVars, libVars, linVars>>
    /\ UNCHANGED <<prog, stream, phase, irProg, irEng, irHost>>

\* the IR engine and the host's record after run returned r
IrRan(r) ==
    /\ r.st # "Cut"
    /\ irEng' = r.eng
    /\ irHost' = AfterStep(irHost, r)

\* Engine::run on the IR engine
IrRun ==
    /\ phase = "ir"
    /\ MayStep(irEng, irHost)
    /\ IrRan(ir_run(irEng))
    /\ UNCHANGED <<optVars, refVars, libVars, linVars>>
    /\ UNCHANGED <<prog, stream, phase, irProg, rawEng, rawHost>>

NextRun ==
    \/ NewEngines
    \/ RawRun
    \/ RawGiveInput
    \/ RawTryGiveInput
    \/ RawFinish
    \/ IrRun
    \/ IrGiveInput
    \/ IrTryGiveInput
    \/ IrFinish

SpecRun == Init /\ [][NextRun]_vars

(***************************************************************************)
(* A raw Program is constructed from a source text, balanced or not, by    *)
(* each of the three constructors.                                         *)
(***************************************************************************)
InitParse ==
    /\ text \in Texts
    /\ parsed = [via |-> "none", ok |-> TRUE, code |-> <<>>]
    /\ memA = <<>>
    /\ memB = <<>>
    /\ shadow = <<>>
    /\ node0 = Noop
    /\ node = Noop
    /\ shiftSum = 0
    /\ LinIdle
    /\ prog = <<>>
    /\ stream = <<>>
    /\ EnginesIdle
    /\ OptIdle

\* text.parse::<Program>()
FromStr ==
    /\ parsed' = [via |-> "from_str"] @@ from_str(text)
    /\ UNCHANGED <<text, memA, memB, shadow, node0, node, shiftSum, linVars>>
    /\ UNCHANGED <<hostVars, optVars, refVars>>

\* Program::from_chars(text.chars())
FromChars ==
    /\ parsed' = [via |-> "from_chars"] @@ from_chars(text)
    /\ UNCHANGED <<text, memA, memB, shadow, node0, node, shiftSum, linVars>>
    /\ UNCHANGED <<hostVars, optVars, refVars>>

\* Program::from_bytes(text.bytes())
FromBytes ==
    /\ parsed' = [via |-> "from_bytes"] @@ from_bytes(Utf8(text))
    /\ UNCHANGED <<text, memA, memB, shadow, node0, node, shiftSum, linVars>>
    /\ UNCHANGED <<hostVars, optVars, refVars>>

NextParse ==
    \/ FromStr
    \/ FromChars
    \/ FromBytes

SpecParse == InitParse /\ [][NextParse]_vars

(***************************************************************************)
(* Two Memory tapes, each under any sequence of set calls.  shadow[i] is   *)
(* the value of the last set(i, _) on memA, -1 while there was none.       *)
(***************************************************************************)
Cells == 0..MaxCell

CellValues == {0, 1, 255}

InitMem ==
    /\ memA = <<>>
    /\ memB = <<>>
    /\ shadow = [i \in Cells |-> -1]
    /\ text = <<>>
    /\ parsed = [via |-> "none", ok |-> TRUE, code |-> <<>>]
    /\ node0 = Noop
    /\ node = Noop
    /\ shiftSum = 0
    /\ LinIdle
    /\ prog = <<>>
    /\ stream = <<>>
    /\ EnginesIdle
    /\ OptIdle

\* memA.set(pos, value)
SetA ==
    /\ \E pos \in Cells, value \in CellValues :
          /\ memA' = mem_set(memA, pos, value)
          /\ shadow' = [shadow EXCEPT ![pos] = value]
    /\ UNCHANGED <<text, parsed, memB, node0, node, shiftSum, linVars>>
    /\ UNCHANGED <<hostVars, optVars, refVars>>

\* memB.set(pos, value)
SetB ==
    /\ \E pos \in Cells, value \in CellValues :
          memB' = mem_set(memB, pos, value)
    /\ UNCHANGED <<text, parsed, memA, shadow, node0, node, shiftSum, linVars>>
    /\ UNCHANGED <<hostVars, optVars, refVars>>

\* memA.shrink_to_fit()
ShrinkA ==
    /\ memA' = mem_shrink_to_fit(memA)
    /\ UNCHANGED <<text, parsed, memB, shadow, node0, node, shiftSum, linVars>>
    /\ UNCHANGED <<hostVars, optVars, refVars>>

NextMem ==
    \/ SetA
    \/ SetB
    \/ ShrinkA

SpecMem == InitMem /\ [][NextMem]_vars

(***************************************************************************)
(* A node of at most MaxNodes nodes is shifted again and again; shiftSum   *)
(* is the sum of the offsets handed to the calls.                          *)
(***************************************************************************)
ShiftNodes == UNION {NodesOfSize(n) : n \in 1..MaxNodes}

InitShift ==
    /\ node0 \in ShiftNodes
    /\ node = node0
    /\ shiftSum = 0
    /\ LinIdle
    /\ text = <<>>
    /\ parsed = [via |-> "none", ok |-> TRUE, code |-> <<>>]
    /\ memA = <<>>
    /\ memB = <<>>
    /\ shadow = <<>>
    /\ prog = <<>>
    /\ stream = <<>>
    /\ EnginesIdle
    /\ OptIdle

\* node = node.shifted(k)
ShiftBy ==
    /\ \E k \in (-MaxShift)..MaxShift :
          /\ shiftSum + k \in (-MaxOffset)..MaxOffset
          /\ node' = shifted(node, k)
          /\ shiftSum' = shiftSum + k
    /\ UNCHANGED <<text, parsed, memA, memB, shadow, node0>>
    /\ UNCHANGED <<hostVars, optVars, refVars, linVars>>

NextShift == ShiftBy

SpecShift == InitShift /\ [][NextShift]_vars

(***************************************************************************)
(* Shorthands of the properties                                            *)
(***************************************************************************)
\* the statuses that end a run
Ended == {"Halted", "MemNegativeOut"}

\* the fingerprint cut after its last Output (IO::fingerprint)
FpCut(fp) ==
    SubSeq(fp, 1, Cardinality({i \in 1..Len(fp) :
                      \E j \in i..Len(fp) : fp[j] = "Output"}))

\* the first n elements of s, all of s when it is shorter
Take(s, n) == SubSeq(s, 1, IF n < Len(s) THEN n ELSE Len(s))

\* the raw engine is at an instruction
RawAt(cs) == rawEng.ip < Len(prog) /\ prog[rawEng.ip + 1] \in cs

\* the IR engine is at a node with one of the tags
IrAt(tags) ==
    /\ TopFrame(irEng).pos < Len(TopFrame(irEng).blk)
    /\ TopFrame(irEng).blk[TopFrame(irEng).pos + 1].tag \in tags

\* the node the IR engine is at
IrNode == TopFrame(irEng).blk[TopFrame(irEng).pos + 1]

\* the address the node the IR engine is at refers to
IrAddr == irEng.mp + IrNode.offset

\* both tapes hold the same value in every cell but cell a
SameBut(m1, m2, a) ==
    \A i \in 0..(Len(m1) + Len(m2)) : i # a => mem_get(m1, i) = mem_get(m2, i)

(***************************************************************************)
(* C1 (stated for the programs whose conversion completes): when both runs *)
(* ended in Halted or MemNegativeOut, the raw engine and the IR engine     *)
(* produced the same output bytes and the same terminal status.            *)
(***************************************************************************)
C1_SameOutputAndStatus ==
    (/\ phase = "done"
     /\ ~irProg.panic
     /\ rawHost.term \in Ended
     /\ irHost.term \in Ended)
    => /\ irHost.out = rawHost.out
       /\ irHost.term = rawHost.term

(***************************************************************************)
(* C2: converting a raw Program with matched brackets into an IR Program   *)
(* completes: no unwrap, index, subtraction or range of from_raw fails.    *)
(***************************************************************************)
C2_FromRawCompletes == phase # "new" => ~irProg.panic

(***************************************************************************)
(* C3: when the raw engine ran to Halted, the I/O events of the IR engine, *)
(* cut at the length of the raw fingerprint cut after its last Output,     *)
(* are that cut raw fingerprint.                                           *)
(***************************************************************************)
C3_FingerprintAgrees ==
    (phase = "done" /\ rawHost.term = "Halted")
    => Take(irHost.fp, Len(FpCut(rawHost.fp))) = FpCut(rawHost.fp)

\* both runs ended, the fingerprint holds an Input and an Output, and the
\* raw engine read an input that the IR program no longer has
C3_Witness ==
    /\ phase = "done"
    /\ rawHost.term = "Halted"
    /\ irHost.term = "Halted"
    /\ FpCut(rawHost.fp) = <<"Input", "Output">>
    /\ Len(rawHost.fp) > Len(irHost.fp)

\* both tapes hold the same value in every cell (Memory::eq)
SameTape(m1, m2) ==
    \A i \in 0..(Len(m1) + Len(m2)) : mem_get(m1, i) = mem_get(m2, i)

(***************************************************************************)
(* C4: when the run of a Block and the run of the optimized Block from the *)
(* same starting state both ended (Halted or MemNegativeOut), they gave    *)
(* the same Output bytes and the same outcome, and two runs that halted    *)
(* left the same tape and the same mp.                                     *)
(***************************************************************************)
C4_OptimizePreserves ==
    (phase = "done" /\ refHost.term \in Ended /\ irHost.term \in Ended)
    => /\ irHost.out = refHost.out
       /\ irHost.term = refHost.term
       /\ refHost.term = "Halted"
          => irEng.mp = refEng.mp /\ SameTape(irEng.mem, refEng.mem)

(***************************************************************************)
(* C5: the second call of Block::optimize on a Block returns false and     *)
(* leaves the Block, nested loop bodies included, as the first call left   *)
(* it.                                                                     *)
(***************************************************************************)
C5_OptimizeIdempotent ==
    Len(optRet) = 2 => optRet[2] = FALSE /\ optBlk = optFirst

\* the first call rewrote the body of a Loop, the second call returned
C5_Witness ==
    /\ Len(optRet) = 2
    /\ optRet[1] = TRUE
    /\ \E i \in 1..Len(optFirst) :
           /\ optFirst[i].tag = "Loop"
           /\ optFirst[i].body # <<>>
           /\ \A j \in 1..Len(optIn) : optIn[j] # optFirst[i]

(***************************************************************************)
(* C6: every call of Block::optimize returns: the fixed-point loop, and    *)
(* the one of every nested Loop body, reaches a pass that reports no       *)
(* change.                                                                 *)
(***************************************************************************)
C6_OptimizeTerminates == <>(Len(optRet) = 2 /\ ~optCut)

\* a call returned after a pass in which retard_shifts, sort_ops or collate
\* rewrote a window left over by the passes before it
C6_Witness == optPc = "done" /\ optRepeats >= 4 /\ ~optCut

(***************************************************************************)
(* C7 as claimed: a step at an instruction that addresses a negative cell  *)
(* returns MemNegativeOut and writes no cell.                              *)
(***************************************************************************)
RawNegative == RawAt({"+", "-", ".", ",", "[", "]"}) /\ rawEng.mp < 0

IrNegative == IrAt({"Add", "Output", "Input", "Loop"}) /\ IrAddr < 0

Refused(r, e) == r.st = "MemNegativeOut" /\ r.eng.mem = e.mem

C7_NegativeAlwaysRefused ==
    /\ RawNegative => Refused(raw_step(rawEng, prog), rawEng)
    /\ IrNegative => Refused(ir_step(irEng), irEng)

(***************************************************************************)
(* C7 amended: such a step returns MemNegativeOut and writes no cell,      *)
(* except that an input instruction reached with an empty slot returns     *)
(* NeedInput (and writes no cell either).                                  *)
(***************************************************************************)
RefusedOrNeedsInput(r, e, atInput) ==
    /\ r.eng.mem = e.mem
    /\ r.st = IF atInput /\ e.input = <<>> THEN "NeedInput"
              ELSE "MemNegativeOut"

C7_NegativeRefused ==
    /\ RawNegative =>
           RefusedOrNeedsInput(raw_step(rawEng, prog), rawEng, RawAt({","}))
    /\ IrNegative =>
           RefusedOrNeedsInput(ir_step(irEng), irEng, IrAt({"Input"}))

\* both engines were stepped at a negative address and reported it
C7_Witness ==
    /\ phase = "done"
    /\ RawNegative /\ rawHost.res = "MemNegativeOut"
    /\ IrNegative /\ irHost.res = "MemNegativeOut"

Waits(r, e) == r.st = "NeedInput" /\ r.eng = e

C9_NeedInputFrame ==
    /\ (RawAt({","}) /\ rawEng.input = <<>>)
       => Waits(raw_step(rawEng, prog), rawEng)
    /\ (IrAt({"Input"}) /\ irEng.input = <<>>) => Waits(ir_step(irEng), irEng)
    /\ rawHost.res = "NeedInput" => RawAt({","}) /\ rawEng.input = <<>>
    /\ irHost.res = "NeedInput" => IrAt({"Input"}) /\ irEng.input = <<>>

\* the step r of engine e stored the pending byte in cell a and emptied
\* the slot
Stored(r, e, a) ==
    /\ r.st = "Running"
    /\ r.eng.input = <<>>
    /\ r.eng.mp = e.mp
    /\ mem_get(r.eng.mem, a) = e.input[1]
    /\ SameBut(r.eng.mem, e.mem, a)

RawStored(r) == Stored(r, rawEng, rawEng.mp) /\ r.eng.ip = rawEng.ip + 1

IrStored(r) ==
    Stored(r, irEng, IrAddr) /\ r.eng.stack = advance(irEng.stack).stack

\* the step r of engine e failed, emptied the slot and changed nothing else
Lost(r, e) == r.st = "MemNegativeOut" /\ r.eng = [e EXCEPT !.input = <<>>]

(***************************************************************************)
(* C9 as claimed: after give_input(b) the next step stores b in the        *)
(* addressed cell, empties the slot and advances by one instruction.       *)
(***************************************************************************)
C9_GivenByteStored ==
    /\ rawHost.res = "Given" => RawAt({","}) /\ RawStored(raw_step(rawEng, prog))
    /\ irHost.res = "Given" => IrAt({"Input"}) /\ IrStored(ir_step(irEng))

(***************************************************************************)
(* C9 amended: ... and after give_input(b) the next step stores b in the   *)
(* addressed cell, empties the slot and advances by one instruction if the *)
(* addressed cell is not negative; if it is negative the step returns      *)
(* MemNegativeOut, empties the slot and neither stores b nor advances.     *)
(***************************************************************************)
C9_InputStep ==
    /\ C9_NeedInputFrame
    /\ rawHost.res = "Given"
       => /\ RawAt({","})
          /\ rawEng.input = <<stream[rawHost.given]>>
          /\ IF rawEng.mp >= 0 THEN RawStored(raw_step(rawEng, prog))
             ELSE Lost(raw_step(rawEng, prog), rawEng)
    /\ irHost.res = "Given"
       => /\ IrAt({"Input"})
          /\ irEng.input = <<stream[irHost.given]>>
          /\ IF IrAddr >= 0 THEN IrStored(ir_step(irEng))
             ELSE Lost(ir_step(irEng), irEng)

\* both engines waited for input, were given a non-zero byte and stored it
C9_Witness ==
    /\ phase = "done"
    /\ rawHost.given = 1 /\ irHost.given = 1
    /\ stream[1] # 0
    /\ rawHost.out = <<stream[1]>>
    /\ irHost.out = <<stream[1]>>

(***************************************************************************)
(* C10: an engine that returned NeedInput has an empty slot, so under the  *)
(* host protocol try_give_input returns Ok, give_input returns None, and   *)
(* the byte given stays in the slot until the program reads it.            *)
(***************************************************************************)
C10_SlotEmptyOnNeedInput ==
    /\ rawHost.res = "NeedInput" => rawEng.input = <<>>
    /\ irHost.res = "NeedInput" => irEng.input = <<>>
    /\ rawHost.ok /\ rawHost.ret = <<>>
    /\ irHost.ok /\ irHost.ret = <<>>
    /\ rawHost.res = "Given" => rawEng.input = <<stream[rawHost.given]>>
    /\ irHost.res = "Given" => irEng.input = <<stream[irHost.given]>>

\* both engines asked for input twice and were given two bytes
C10_Witness ==
    /\ phase = "done"
    /\ rawHost.term = "Halted" /\ irHost.term = "Halted"
    /\ rawHost.given = 2 /\ irHost.given = 2
    /\ rawEng.input = <<>> /\ irEng.input = <<>>

(***************************************************************************)
(* C11: in both engines a step at an output instruction whose address is   *)
(* not negative returns HasOutput with the value of the addressed cell,    *)
(* changes neither the tape, mp nor the slot, and leaves the engine at the *)
(* following instruction; and the raw engine returns HasOutput from no     *)
(* other instruction.                                                      *)
(***************************************************************************)
Emitted(r, e, a) ==
    /\ r.st = "HasOutput"
    /\ r.byte = mem_get(e.mem, a)
    /\ r.eng.mem = e.mem
    /\ r.eng.mp = e.mp
    /\ r.eng.input = e.input

C11_OutputStep ==
    /\ (RawAt({"."}) /\ rawEng.mp >= 0)
       => /\ Emitted(raw_step(rawEng, prog), rawEng, rawEng.mp)
          /\ raw_step(rawEng, prog).eng.ip = rawEng.ip + 1
    /\ (IrAt({"Output"}) /\ IrAddr >= 0)
       => /\ Emitted(ir_step(irEng), irEng, IrAddr)
          /\ ir_step(irEng).eng.stack = advance(irEng.stack).stack
    /\ rawHost.res = "HasOutput"
       => /\ rawEng.ip >= 1 /\ prog[rawEng.ip] = "."
          /\ rawHost.byte = mem_get(rawEng.mem, rawEng.mp)
          /\ rawHost.out[Len(rawHost.out)] = rawHost.byte
    /\ irHost.res = "HasOutput"
       => irHost.out[Len(irHost.out)] = irHost.byte

\* both engines ran `+.+.` and emitted the two values of the cell in order
C11_Witness ==
    /\ phase = "done"
    /\ prog = <<"+", ".", "+", ".">>
    /\ rawHost.out = <<1, 2>>
    /\ irHost.out = <<1, 2>>

RECURSIVE RawAfter(_, _, _)
\* the raw engine e after k steps
RawAfter(e, code, k) ==
    IF k = 0 THEN e ELSE RawAfter(raw_step(e, code).eng, code, k - 1)

RECURSIVE IrAfter(_, _)
\* the IR engine e after k steps
IrAfter(e, k) == IF k = 0 THEN e ELSE IrAfter(ir_step(e).eng, k - 1)

\* what a step returned, without the count of steps
Returned(r) == [eng |-> r.eng, st |-> r.st, byte |-> r.byte]

\* run on the raw engine e returned r: every step before the last
\* returned Running, and r is what the last step returned and left
RawFirstStop(e, code, r) ==
    \/ r.st = "Cut"
    \/ /\ r.steps >= 1
       /\ r.st # "Running"
       /\ \A j \in 1..(r.steps - 1) :
              raw_step(RawAfter(e, code, j - 1), code).st = "Running"
       /\ raw_step(RawAfter(e, code, r.steps - 1), code) = Returned(r)

IrFirstStop(e, r) ==
    \/ r.st = "Cut"
    \/ /\ r.steps >= 1
       /\ r.st # "Running"
       /\ \A j \in 1..(r.steps - 1) :
              ir_step(IrAfter(e, j - 1)).st = "Running"
       /\ ir_step(IrAfter(e, r.steps - 1)) = Returned(r)

(***************************************************************************)
(* C12: a call of run that returns made steps that all returned Running    *)
(* but the last, and returns what the last step returned, with the engine  *)
(* as that step left it.                                                   *)
(***************************************************************************)
C12_RunReturnsFirstStop ==
    /\ RawFirstStop(rawEng, prog, raw_run(rawEng, prog))
    /\ IrFirstStop(irEng, ir_run(irEng))

\* both engines ran `++.+`: a run of three steps returned HasOutput(2), the
\* next run of two steps returned Halted
C12_Witness ==
    /\ phase = "done"
    /\ prog = <<"+", "+", ".", "+">>
    /\ rawHost.out = <<2>> /\ rawHost.term = "Halted" /\ rawEng.ip = 4
    /\ irHost.out = <<2>> /\ irHost.term = "Halted"

(***************************************************************************)
(* C13 as claimed: the step after a step that returned MemNegativeOut      *)
(* returns MemNegativeOut too.                                             *)
(***************************************************************************)
C13_ErrorRepeats ==
    /\ rawHost.res = "MemNegativeOut"
       => raw_step(rawEng, prog).st = "MemNegativeOut"
    /\ irHost.res = "MemNegativeOut" => ir_step(irEng).st = "MemNegativeOut"

\* the step r of engine e executed nothing: it returned MemNegativeOut, or
\* NeedInput at an input instruction with an empty slot, and changed
\* nothing but the slot, which an input instruction empties
Stuck(r, e, atInput) ==
    /\ r.eng = IF atInput THEN [e EXCEPT !.input = <<>>] ELSE e
    /\ r.st = IF atInput /\ e.input = <<>> THEN "NeedInput"
              ELSE "MemNegativeOut"

(***************************************************************************)
(* C13 amended: an engine that returned MemNegativeOut stays at the        *)
(* instruction that failed, whatever the host does: every later step       *)
(* leaves ip / block stack, mp and tape unchanged and returns              *)
(* MemNegativeOut, except at an input instruction, where the failing step  *)
(* has taken the pending byte: there the steps return NeedInput until the  *)
(* host gives a byte, which the next step takes, failing again.            *)
(***************************************************************************)
C13_ErrorStuck ==
    /\ rawHost.term = "MemNegativeOut" => RawNegative
    /\ RawNegative => Stuck(raw_step(rawEng, prog), rawEng, RawAt({","}))
    /\ irHost.term = "MemNegativeOut" => IrNegative
    /\ IrNegative => Stuck(ir_step(irEng), irEng, IrAt({"Input"}))

\* both engines failed at an input instruction and were stepped again
C13_Witness ==
    /\ phase = "done"
    /\ rawHost.term = "MemNegativeOut" /\ rawHost.res = "NeedInput"
    /\ irHost.term = "MemNegativeOut" /\ irHost.res = "NeedInput"

\* the bracket depth after the first i characters of a text
Depth(s, i) ==
    Cardinality({j \in 1..i : s[j] = 91}) - Cardinality({j \in 1..i : s[j] = 93})

\* the depth becomes negative at some point or is not zero at the end
Unmatched(s) == (\E i \in 1..Len(s) : Depth(s, i) < 0) \/ Depth(s, Len(s)) # 0

(***************************************************************************)
(* C14: constructing a raw Program fails with UnmatchedParentheses if and  *)
(* only if the bracket depth of the text becomes negative at some point or *)
(* is not zero at the end; a failure returns no program.                   *)
(***************************************************************************)
C14_UnmatchedParentheses ==
    parsed.via # "none"
    => /\ parsed.ok <=> ~Unmatched(text)
       /\ ~parsed.ok => DOMAIN parsed = {"via", "ok"}

\* the text `][` was refused: its depth is zero at the end but negative
\* after the first character
C14_Witness ==
    /\ text = <<93, 91>>
    /\ parsed.via = "from_bytes"
    /\ ~parsed.ok

\* the opcodes of a text
IsOpcode(c) == c \in {43, 45, 60, 62, 46, 44, 91, 93}

(***************************************************************************)
(* C15: for a text with balanced brackets the construction succeeds and    *)
(* the bytes of the Program are the characters of the text that are        *)
(* opcodes, in their order.                                                *)
(***************************************************************************)
C15_ParseFilters ==
    (parsed.via # "none" /\ ~Unmatched(text))
    => parsed.ok /\ as_bytes(parsed.code) = SelectSeq(text, IsOpcode)

\* a text with a character beyond Latin-1 between its opcodes was parsed
\* to `[+]`
C15_Witness ==
    /\ text = <<91, 299, 43, 93>>
    /\ parsed.via = "from_str"
    /\ parsed.ok
    /\ parsed.code = <<"[", "+", "]">>

(***************************************************************************)
(* C16: after any sequence of set calls get(i) returns the value of the    *)
(* most recent set(i, _), and 0 for a cell never set, also beyond the      *)
(* buffer.                                                                 *)
(***************************************************************************)
C16_GetAfterSet ==
    \A i \in 0..(MaxCell + 1) :
        mem_get(memA, i) = IF i \in DOMAIN shadow /\ shadow[i] # -1
                           THEN shadow[i] ELSE 0

\* cell 0 holds 1, cell 1 was never set, and the 0 written to cell 2 was
\* written past the end of a buffer that is still one cell long
C16_Witness ==
    /\ DOMAIN shadow = Cells
    /\ shadow[0] = 1
    /\ shadow[1] = -1
    /\ shadow[2] = 0
    /\ Len(memA) = 1

(***************************************************************************)
(* C17: two Memory tapes compare equal if and only if get agrees on every  *)
(* index, whatever the lengths of their buffers.                           *)
(***************************************************************************)
C17_EqIsGetEq ==
    mem_eq(memA, memB)
    <=> \A i \in 0..(MaxCell + 1) : mem_get(memA, i) = mem_get(memB, i)

\* two tapes that compare equal with buffers of different lengths, the
\* longer one ending in a zero that was written
C17_Witness ==
    /\ memA = <<255, 1, 0>>
    /\ memB = <<255, 1>>
    /\ mem_eq(memA, memB)

RECURSIVE BlockOffsets(_)
\* the offsets inside a node, outside in and left to right
Offsets(n) ==
    CASE n.tag \in {"Add", "Output", "Input"} -> <<n.offset>>
      [] n.tag = "Loop" -> <<n.offset>> \o BlockOffsets(n.body)
      [] OTHER -> <<>>

BlockOffsets(b) ==
    IF b = <<>> THEN <<>> ELSE Offsets(Head(b)) \o BlockOffsets(Tail(b))

RECURSIVE Erased(_)
\* a node with every offset inside it set to 0
Erased(n) ==
    CASE n.tag \in {"Add", "Output", "Input"} -> [n EXCEPT !.offset = 0]
      [] n.tag = "Loop" ->
            LoopNode([i \in 1..Len(n.body) |-> Erased(n.body[i])], 0)
      [] OTHER -> n

(***************************************************************************)
(* C18: a node shifted by a and then by b is the node shifted by a + b,    *)
(* shifting by 0 changes nothing, and a shift by k adds k to the offset of *)
(* every Add, Output, Input and Loop inside the node, at any depth, and    *)
(* changes nothing else.                                                   *)
(***************************************************************************)
C18_ShiftedComposes ==
    /\ node = shifted(node0, shiftSum)
    /\ shifted(node, 0) = node
    /\ Offsets(node) = [i \in 1..Len(Offsets(node0)) |->
                            Offsets(node0)[i] + shiftSum]
    /\ Erased(node) = Erased(node0)

\* a loop inside a loop, moved by 4 in at least two calls
C18_Witness ==
    /\ node0 = LoopNode(<<LoopNode(<<AddNode(1, 1)>>, 0)>>, 0)
    /\ shiftSum = 4
    /\ node = LoopNode(<<LoopNode(<<AddNode(1, 5)>>, 4)>>, 4)

(***************************************************************************)
(* C19: the top-level Block of the IR Program that from_raw returns does   *)
(* not begin with a Loop.                                                  *)
(***************************************************************************)
C19_NoLeadingLoop ==
    (phase # "new" /\ ~irProg.panic)
    => irProg.body = <<>> \/ irProg.body[1].tag # "Loop"

(***************************************************************************)
(* C20: the top-level Block of the IR Program that from_raw returns, when  *)
(* it is not empty, ends with an Output or a Loop.                         *)
(***************************************************************************)
C20_NoIdleTail ==
    (phase # "new" /\ ~irProg.panic /\ irProg.body # <<>>)
    => irProg.body[Len(irProg.body)].tag \in {"Output", "Loop"}

(***************************************************************************)
(* C21: two nodes that commute, run in either order from the same engine   *)
(* state, give the same output bytes, the same outcome and the same final  *)
(* tape and mp.                                                            *)
(***************************************************************************)
C21_CommuteSwaps ==
    (phase = "done" /\ refHost.term \in Ended /\ irHost.term \in Ended)
    => /\ irHost.out = refHost.out
       /\ irHost.term = refHost.term
       /\ irEng.mp = refEng.mp
       /\ SameTape(irEng.mem, refEng.mem)

\* try_give_input(b) on engine e gave engine e2 and the host record h2:
\* on an empty slot Ok and b stored, else Err of the pending byte and the
\* engine as it was
Tried(e, e2, h2, b) ==
    IF input(e) = <<>>
    THEN h2.ok /\ e2 = [e EXCEPT !.input = <<b>>]
    ELSE ~h2.ok /\ h2.ret = input(e) /\ e2 = e

(***************************************************************************)
(* C22: try_give_input(b) stores b and returns Ok only when the slot is    *)
(* empty; when a byte e is pending it returns Err(e) and leaves the slot   *)
(* and the rest of the engine as they were.                                *)
(***************************************************************************)
C22_TryGiveInput ==
    [][/\ RawTryFeed
          => Tried(rawEng, rawEng', rawHost', stream[rawHost.given + 1])
       /\ IrTryFeed
          => Tried(irEng, irEng', irHost', stream[irHost.given + 1])]_vars

\* both engines refused the second byte, 0, and kept the pending 1
C22_Witness ==
    /\ stream = <<1, 0>>
    /\ rawHost.given = 2 /\ ~rawHost.ok /\ rawHost.ret = <<1>>
    /\ irHost.given = 2 /\ ~irHost.ok /\ irHost.ret = <<1>>
    /\ input(rawEng) = <<1>>
    /\ input(irEng) = <<1>>

\* give_input(b) on engine e gave engine e2 and the host record h2: b is
\* in the slot, the byte pending before is returned, nothing else changed
Gave(e, e2, h2, b) ==
    /\ input(e2) = <<b>>
    /\ h2.ret = input(e)
    /\ e2 = [e EXCEPT !.input = <<b>>]

(***************************************************************************)
(* C23: give_input(b) leaves the slot holding b and returns the byte that  *)
(* was pending before (None for an empty slot); input() then reports b;    *)
(* the slot never holds more than one byte.                                *)
(***************************************************************************)
C23_GiveInput ==
    /\ [][/\ RawFeed
             => Gave(rawEng, rawEng', rawHost', stream[rawHost.given + 1])
          /\ IrFeed
             => Gave(irEng, irEng', irHost', stream[irHost.given + 1])]_vars
    /\ [](Len(input(rawEng)) <= 1 /\ Len(input(irEng)) <= 1)

\* both engines were given 0 over a pending 1: the 1 came back, the slot
\* holds the 0
C23_Witness ==
    /\ stream = <<1, 0>>
    /\ rawHost.given = 2 /\ rawHost.ok /\ rawHost.ret = <<1>>
    /\ irHost.given = 2 /\ irHost.ok /\ irHost.ret = <<1>>
    /\ input(rawEng) = <<0>>
    /\ input(irEng) = <<0>>

(***************************************************************************)
(* C24: in every state of the IR engine that runs the IR Program of a raw  *)
(* Program, the node that step inspects exists: every frame's pos is below *)
(* the length of its block, except for a stack of one frame whose pos is   *)
(* the length of its block (Halted).                                       *)
(***************************************************************************)
C24_CurrentNodeExists ==
    (phase \in {"ir", "done"} /\ ~irProg.panic)
    => \A i \in 1..Len(irEng.stack) :
          \/ irEng.stack[i].pos < Len(irEng.stack[i].blk)
          \/ /\ Len(irEng.stack) = 1
             /\ irEng.stack[i].pos = Len(irEng.stack[i].blk)

\* every frame below the top one is at a Loop whose body in the tree is
\* the empty placeholder
Placeholders(stack) ==
    \A i \in 1..(Len(stack) - 1) :
        /\ stack[i].pos < Len(stack[i].blk)
        /\ stack[i].blk[stack[i].pos + 1].tag = "Loop"
        /\ stack[i].blk[stack[i].pos + 1].body = <<>>

RECURSIVE Restored(_)
\* the top-level block once every frame's block is put back into the Loop
\* of the frame below
Restored(stack) ==
    IF Len(stack) = 1 THEN stack[1].blk
    ELSE LET rest == SubSeq(stack, 1, Len(stack) - 1)
             sup == rest[Len(rest)]
         IN  Restored([rest EXCEPT ![Len(rest)].blk[sup.pos + 1].body =
                           stack[Len(stack)].blk])

(***************************************************************************)
(* C25: in every state of an IR engine each frame below the top one is at  *)
(* a Loop whose body in the tree is the empty placeholder, and putting     *)
(* every frame's block back into that Loop gives the Block the engine was  *)
(* created with.                                                           *)
(***************************************************************************)
C25_BodiesOwnedOnce ==
    /\ Placeholders(refEng.stack)
    /\ Placeholders(irEng.stack)
    /\ Restored(refEng.stack) = optIn
    /\ Restored(irEng.stack) = optBlk

\* the engine is inside a loop inside a loop: three frames, two bodies out
\* of the tree
C25_Witness ==
    /\ Len(refEng.stack) = 3
    /\ refEng.stack[3].blk # <<>>
    /\ refEng.stack[1].blk # optIn
    /\ refEng.stack[3].pos = 0

\* the node engine e is at, which is a Loop, and its guard cell
AtLoop(e) ==
    /\ TopFrame(e).pos < Len(TopFrame(e).blk)
    /\ TopFrame(e).blk[TopFrame(e).pos + 1].tag = "Loop"

CurNode(e) == TopFrame(e).blk[TopFrame(e).pos + 1]

GuardNonZero(e) ==
    /\ e.mp + CurNode(e).offset >= 0
    /\ mem_get(e.mem, e.mp + CurNode(e).offset) # 0

GuardZero(e) ==
    /\ e.mp + CurNode(e).offset >= 0
    /\ mem_get(e.mem, e.mp + CurNode(e).offset) = 0

\* the step from e to e2 entered the body of the Loop e is at
Entered(e, e2) ==
    /\ Len(e2.stack) = Len(e.stack) + 1
    /\ TopFrame(e2) = Frame(CurNode(e).body, 0)
    /\ \A i \in 1..Len(e.stack) : e2.stack[i].pos = e.stack[i].pos

\* the step from e to e2 completed the last node of a loop body: the frame
\* is gone and the engine is at the same Loop node again, its body back
Reexamined(e, e2) ==
    /\ Len(e2.stack) = Len(e.stack) - 1
    /\ TopFrame(e2).pos = e.stack[Len(e2.stack)].pos
    /\ AtLoop(e2)
    /\ CurNode(e2).body = TopFrame(e).blk

\* a step of the engine from e to e2, as a step of a while loop
LoopStep(e, e2) ==
    /\ (AtLoop(e) /\ GuardNonZero(e)) => Entered(e, e2)
    /\ Len(e2.stack) > Len(e.stack) => AtLoop(e) /\ GuardNonZero(e)
    /\ (/\ Len(e.stack) > 1
        /\ TopFrame(e).pos = Len(TopFrame(e).blk) - 1
        /\ e2.stack # e.stack
        /\ Len(e2.stack) <= Len(e.stack)) => Reexamined(e, e2)
    /\ Len(e2.stack) < Len(e.stack)
       => TopFrame(e).pos = Len(TopFrame(e).blk) - 1
    /\ \A i \in 1..Len(e.stack) :
          (/\ e.stack[i].pos < Len(e.stack[i].blk)
           /\ e.stack[i].blk[e.stack[i].pos + 1].tag = "Loop"
           /\ \/ i > Len(e2.stack)
              \/ e2.stack[i].pos # e.stack[i].pos)
          => i = Len(e.stack) /\ GuardZero(e)

(***************************************************************************)
(* C26: the IR engine runs a Loop as a while loop: a step enters the body  *)
(* exactly when the engine is at the Loop and the guard cell is not zero;  *)
(* the step that completes the last node of the body leaves the engine at  *)
(* the same Loop node, the pos of its frame unchanged; and a frame moves   *)
(* past a Loop node only in a step that found the guard cell zero.         *)
(***************************************************************************)
C26_WhileLoop ==
    [][/\ RefStep => LoopStep(refEng, refEng')
       /\ IrStep => LoopStep(irEng, irEng')]_vars

\* a loop was entered, its body ran to the end and the guard, examined
\* again, was found zero: the engine halted after the loop with cell 0
\* counted down from 1
C26_Witness ==
    /\ optIn = <<LoopNode(<<AddNode(255, 0)>>, 0), OutputNode(0)>>
    /\ refHost.term = "Halted"
    /\ refHost.out = <<0>>
    /\ refEng.stack = <<Frame(optIn, 2)>>
    /\ refEng.mem = <<0>>

\* `[` minus `]` among the instructions a..b of code (counted from 1)
BrDepth(code, a, b) ==
    Cardinality({k \in a..b : code[k] = "["})
        - Cardinality({k \in a..b : code[k] = "]"})

\* the `]` that matches the `[` at i, and the `[` that matches the `]` at j
MatchClose(code, i) ==
    CHOOSE j \in (i + 1)..Len(code) :
        /\ code[j] = "]"
        /\ BrDepth(code, i, j) = 0
        /\ \A k \in i..(j - 1) : BrDepth(code, i, k) > 0

MatchOpen(code, j) ==
    CHOOSE i \in 1..(j - 1) :
        /\ code[i] = "["
        /\ BrDepth(code, i, j) = 0
        /\ \A k \in (i + 1)..j : BrDepth(code, k, j) < 0

\* the ip after the step r of a bracket at ip (instruction ip + 1 counted
\* from 1): one past the matching bracket after a jump, else ip + 1
BracketStep(r, e, code) ==
    LET c == code[e.ip + 1]
        cell == mem_get(e.mem, e.mp)
    IN  /\ r.st = "Running"
        /\ c = "[" => r.eng.ip = IF cell = 0 THEN MatchClose(code, e.ip + 1)
                                 ELSE e.ip + 1
        /\ c = "]" => r.eng.ip = IF cell # 0 THEN MatchOpen(code, e.ip + 1)
                                 ELSE e.ip + 1
        /\ r.eng = [e EXCEPT !.ip = r.eng.ip]

(***************************************************************************)
(* C27: in every state of the raw engine 0 <= ip <= len(program), no step  *)
(* panics, and a `[` or `]` executed at a cell of the tape leaves ip one   *)
(* past the matching bracket when it jumps (`[` on a zero cell, `]` on a   *)
(* non-zero cell) and at ip + 1 when it does not.                          *)
(***************************************************************************)
C27_IpInProgram ==
    /\ 0 <= rawEng.ip /\ rawEng.ip <= Len(prog)
    /\ rawHost.res # "Panic"
    /\ raw_step(rawEng, prog).st # "Panic"
    /\ (RawAt({"[", "]"}) /\ rawEng.mp >= 0)
       => BracketStep(raw_step(rawEng, prog), rawEng, prog)

\* the engine is at the `]` of `-[-]` with 254 in the cell, about to jump
\* back
C27_Witness ==
    /\ prog = <<"-", "[", "-", "]">>
    /\ rawEng.ip = 3
    /\ rawEng.mem = <<254>>
    /\ raw_step(rawEng, prog).eng.ip = 2

\* no rewrite of OPTIMIZATIONS_2 changes the window (n1, n2)
FixedWindow(n1, n2) ==
    /\ ~collate(n1, n2).right
    /\ ~retard_shifts(n1, n2).right
    /\ ~sort_ops(n1, n2).right

\* what the fixed windows come to, on the tags and offsets of the window
Canonical(n1, n2) ==
    /\ n1.tag # "Shift"
    /\ ~(n1.tag = "Add" /\ n2.tag = "Add" /\ n1.offset = n2.offset)
    /\ ~(n1.tag = "Loop" /\ n2.tag = "Loop" /\ n1.offset = n2.offset)

RECURSIVE FixedBlock(_)
\* every window of two adjacent nodes of b, at even and odd positions, is
\* fixed, no node is a Noop, and the same holds inside every Loop
FixedBlock(b) ==
    /\ \A i \in 1..Len(b) :
          /\ b[i].tag # "Noop"
          /\ b[i].tag = "Loop" => FixedBlock(b[i].body)
    /\ \A i \in 1..(Len(b) - 1) :
          FixedWindow(b[i], b[i + 1]) /\ Canonical(b[i], b[i + 1])

(***************************************************************************)
(* C28: when Block::optimize returns, every window of two adjacent nodes   *)
(* of every block of the tree, at even and odd positions alike, is left    *)
(* unchanged by collate, retard_shifts and sort_ops, and no node is a      *)
(* Noop: no two adjacent Shifts, Adds with the same offset or Loops with   *)
(* the same offset, and no Shift followed by another node.                 *)
(***************************************************************************)
C28_FixedAtEveryWindow == (optPc = "done" /\ ~optCut) => FixedBlock(optBlk)

\* a Shift that stood at an odd position before an Add was moved behind it
C28_Witness ==
    /\ optPc = "done"
    /\ ~optCut
    /\ optIn = <<AddNode(1, 0), ShiftNode(1), AddNode(1, 0)>>
    /\ optBlk = <<AddNode(1, 0), AddNode(1, 1), ShiftNode(1)>>

RECURSIVE AddsMerged(_)
\* in every run of consecutive Adds of b, and of every Loop body inside,
\* the offsets are pairwise distinct
AddsMerged(b) ==
    /\ \A i \in 1..Len(b) : b[i].tag = "Loop" => AddsMerged(b[i].body)
    /\ \A i \in 1..Len(b) : \A j \in (i + 1)..Len(b) :
          (\A k \in i..j : b[k].tag = "Add") => b[i].offset # b[j].offset

(***************************************************************************)
(* C29: after Block::optimize the offsets within any run of consecutive    *)
(* Add nodes are pairwise distinct.                                        *)
(***************************************************************************)
C29_AddsMerged == (optPc = "done" /\ ~optCut) => AddsMerged(optBlk)

\* the frame f stands at a Loop that follows a Loop with the same offset
AtSecondLoop(f) ==
    /\ 1 <= f.pos /\ f.pos < Len(f.blk)
    /\ f.blk[f.pos + 1].tag = "Loop"
    /\ f.blk[f.pos].tag = "Loop"
    /\ f.blk[f.pos + 1].offset = f.blk[f.pos].offset

\* whenever engine e is at the second Loop of such a pair, no frame is
\* above it (the body is not entered) and its guard cell is zero
SecondLoopIdle(e) ==
    \A i \in 1..Len(e.stack) :
        AtSecondLoop(e.stack[i])
        => /\ i = Len(e.stack)
           /\ e.mp + CurNode(e).offset >= 0
           /\ mem_get(e.mem, e.mp + CurNode(e).offset) = 0

(***************************************************************************)
(* C30: the body of the second of two adjacent Loops with the same offset  *)
(* is never entered: its guard cell is zero whenever it is examined,       *)
(* whatever the body of the first Loop does to mp; and the Block with the  *)
(* pair replaced by the first Loop gives the same outputs, the same        *)
(* outcome and the same final tape and mp.                                 *)
(***************************************************************************)
C30_SecondLoopNeverEntered ==
    /\ SecondLoopIdle(refEng)
    /\ (phase = "done" /\ refHost.term \in Ended /\ irHost.term \in Ended)
       => /\ irHost.out = refHost.out
          /\ irHost.term = refHost.term
          /\ irEng.mp = refEng.mp
          /\ SameTape(irEng.mem, refEng.mem)

\* the first Loop moved mp from 0 to 1 and ended there; the engine stands
\* at the second Loop with its guard cell, now cell 1, zero
C30_Witness ==
    /\ optIn = <<LoopNode(<<ShiftNode(1)>>, 0), LoopNode(<<OutputNode(0)>>, 0)>>
    /\ refEng.stack = <<Frame(optIn, 1)>>
    /\ refEng.mp = 1
    /\ refEng.mem = <<1>>

\* the cell the next step of engine e reads or writes, if any
Touched(e) ==
    IF TopFrame(e).pos < Len(TopFrame(e).blk)
    THEN IF TopFrame(e).blk[TopFrame(e).pos + 1].tag
                \in {"Add", "Output", "Input", "Loop"}
         THEN <<e.mp + TopFrame(e).blk[TopFrame(e).pos + 1].offset>>
         ELSE <<>>
    ELSE <<>>

\* the engine on [Shift{k}, X], past its Shift, and the engine on
\* [X.shifted(k), Shift{k}] after the same number of steps and the same
\* bytes: about to touch the same cell, with the same tape, output bytes
\* and I/O events, and the same outcome (the first engine returns Halted
\* in the step in which the second does its Shift)
RetardedAlike ==
    /\ Touched(refEng) = Touched(irEng)
    /\ SameTape(refEng.mem, irEng.mem)
    /\ refHost.out = irHost.out
    /\ refHost.fp = irHost.fp
    /\ refEng.input = irEng.input
    /\ \/ refHost.term = irHost.term
       \/ /\ refHost.term = "Halted"
          /\ irHost.term = "None"
          /\ irEng.stack = <<Frame(optBlk, 2)>>
          /\ irEng.mp = refEng.mp

(***************************************************************************)
(* C31, as stated: [Shift{k}, X] and [X.shifted(k), Shift{k}], run from    *)
(* the same engine state, touch the same cells in the same order and end   *)
(* with the same tape, the same I/O events, the same outcome and the same  *)
(* mp.                                                                     *)
(***************************************************************************)
C31_RetardSameMp ==
    /\ phase \in {"pair", "done"} => RetardedAlike
    /\ phase = "done" => /\ refHost.term = irHost.term
                         /\ refEng.mp = irEng.mp

(***************************************************************************)
(* C31, amended: the two windows touch the same cells in the same order    *)
(* and end with the same tape, I/O events and outcome; they end with the   *)
(* same mp when they end Halted, and when they fail inside X the engine    *)
(* of the rewritten window, whose Shift has not run, has mp lower by k.    *)
(***************************************************************************)
C31_RetardKeeps ==
    /\ phase \in {"pair", "done"} => RetardedAlike
    /\ phase = "done" =>
          /\ refHost.term = irHost.term
          /\ refHost.term = "Halted" => refEng.mp = irEng.mp
          /\ refHost.term # "Halted" => refEng.mp = irEng.mp + optIn[1].amount

\* the window [Shift{1}, Loop{[Shift{-1}]}] started at mp = -1 on the tape
\* [1]: the body is entered once and the guard then fails at cell -1
C31_Witness ==
    /\ phase = "done"
    /\ optIn = <<ShiftNode(1), LoopNode(<<ShiftNode(-1)>>, 0)>>
    /\ refHost.term = "MemNegativeOut"
    /\ refEng.mp = -1
    /\ irEng.mp = -2
    /\ refEng.mem = <<1>>

(***************************************************************************)
(* C32: collate turns [Add{a1,o}, Add{a2,o}] into the one node             *)
(* Add{(a1+a2) mod 256, o}, or into nothing when that sum is 0, and two    *)
(* Shifts into the one Shift of the summed amount, or into nothing when    *)
(* the sum is 0; run from the same state, the pair and the result leave    *)
(* the same value in the cell at mp+o, the same tape and the same mp.      *)
(***************************************************************************)
C32_CollateAdds ==
    /\ (optIn[1].tag = "Add")
       => optBlk = IF (optIn[1].amount + optIn[2].amount) % Byte # 0
                   THEN <<AddNode((optIn[1].amount + optIn[2].amount) % Byte,
                                  optIn[1].offset)>>
                   ELSE <<>>
    /\ (optIn[1].tag = "Shift")
       => optBlk = IF optIn[1].amount + optIn[2].amount # 0
                   THEN <<ShiftNode(optIn[1].amount + optIn[2].amount)>>
                   ELSE <<>>
    /\ (phase = "done" /\ refHost.term \in Ended /\ irHost.term \in Ended)
       => /\ irHost.term = "Halted"
          /\ refHost.term = "Halted"
          /\ irEng.mp = refEng.mp
          /\ SameTape(irEng.mem, refEng.mem)
          /\ (optIn[1].tag = "Add")
             => /\ mem_get(irEng.mem, irEng.mp + optIn[1].offset)
                   = mem_get(refEng.mem, refEng.mp + optIn[1].offset)
                /\ \E v \in CollateValues :
                      mem_get(refEng.mem, optIn[1].offset)
                      = (v + optIn[1].amount + optIn[2].amount) % Byte

\* 200 and 100 added to a cell that holds 255: the one Add of 44 leaves 43
C32_Witness ==
    /\ phase = "done"
    /\ optIn = <<AddNode(200, 1), AddNode(100, 1)>>
    /\ optBlk = <<AddNode(44, 1)>>
    /\ irHost.term = "Halted"
    /\ irEng.mem = <<0, 43>>
    /\ refEng.mem = <<0, 43>>

\* the buffers a Memory can have with cells up to MaxCell written
MemTapes == UNION {[1..n -> CellValues] : n \in 0..(MaxCell + 1)}

\* the order of two tapes read as zero-extended sequences: decided by the
\* first cell in which they differ
ZeroExtCmp(a, b) ==
    LET D == {i \in 0..MaxCell : mem_get(a, i) # mem_get(b, i)}
    IN  IF D = {} THEN 0
        ELSE LET first == CHOOSE i \in D : \A j \in D : i <= j
             IN  IntCmp(mem_get(a, first), mem_get(b, first))

(***************************************************************************)
(* C33: cmp of two Memory tapes is Equal exactly when they are equal, is   *)
(* the lexicographic order of the tapes read as zero-extended sequences,   *)
(* and is antisymmetric and transitive whatever zeros end the buffers.     *)
(***************************************************************************)
C33_CmpZeroExtended ==
    /\ (mem_cmp(memA, memB) = 0) <=> mem_eq(memA, memB)
    /\ mem_cmp(memA, memB) = ZeroExtCmp(memA, memB)
    /\ mem_cmp(memB, memA) = 0 - mem_cmp(memA, memB)
    /\ \A c \in MemTapes :
          (mem_cmp(memA, memB) <= 0 /\ mem_cmp(memB, c) <= 0)
          => mem_cmp(memA, c) <= 0

\* a buffer with two zeros written at its end against the shorter buffer
\* of the same tape, and so Equal
C33_Witness ==
    /\ memA = <<1, 0, 0>>
    /\ memB = <<1>>
    /\ mem_cmp(memA, memB) = 0
    /\ mem_cmp(memB, <<1, 0, 255>>) = -1

\* buffer r is buffer m with cell pos holding value and the cells that m
\* did not reach holding 0
WrittenAt(m, r, pos, value) ==
    /\ r[pos + 1] = value
    /\ \A i \in 1..Len(r) :
          i # pos + 1 => r[i] = IF i <= Len(m) THEN m[i] ELSE 0

(***************************************************************************)
(* C34: set(i, 0) with i at or beyond the end of the buffer leaves the     *)
(* buffer as it is; set(i, v) with v # 0 and i at or beyond the end makes  *)
(* the buffer exactly i + 1 long, with zeros between the old end and i; a  *)
(* set inside the buffer does not change its length.                       *)
(***************************************************************************)
C34_SetExtends ==
    \A pos \in 0..(MaxCell + 1), value \in CellValues :
        /\ (pos >= Len(memA) /\ value = 0)
           => mem_set(memA, pos, value) = memA
        /\ (pos >= Len(memA) /\ value # 0)
           => /\ Len(mem_set(memA, pos, value)) = pos + 1
              /\ WrittenAt(memA, mem_set(memA, pos, value), pos, value)
        /\ (pos < Len(memA))
           => /\ Len(mem_set(memA, pos, value)) = Len(memA)
              /\ WrittenAt(memA, mem_set(memA, pos, value), pos, value)

\* 255 written to cell 2 of a buffer that held cell 0 only; cell 1 was
\* never set, and a 0 was then written past the end
C34_Witness ==
    /\ memA = <<1, 0, 255>>
    /\ shadow[1] = -1
    /\ mem_set(memA, 3, 0) = memA
    /\ memB = <<>>

\* ip, mp and tape of a raw engine are those of engine e
RawCore(e) == <<e.ip, e.mp, e.mem>>

\* block stack, mp and tape of an IR engine
IrCore(e) == <<e.stack, e.mp, e.mem>>

(***************************************************************************)
(* C35: once step has returned Halted, every later step and every later    *)
(* run returns Halted again, and neither they nor the give_input and       *)
(* try_give_input calls made in between change ip (raw engine) or the      *)
(* block stack (IR engine), mp or the tape.                                *)
(***************************************************************************)
C35_HaltedAbsorbing ==
    /\ [](rawHost.term = "Halted"
          => /\ raw_step(rawEng, prog).st = "Halted"
             /\ raw_run(rawEng, prog).st = "Halted"
             /\ raw_run(rawEng, prog).eng = rawEng)
    /\ [](irHost.term = "Halted"
          => /\ ir_step(irEng).st = "Halted"
             /\ ir_run(irEng).st = "Halted"
             /\ ir_run(irEng).eng = irEng)
    /\ [][/\ rawHost.term = "Halted" => RawCore(rawEng') = RawCore(rawEng)
          /\ irHost.term = "Halted" => IrCore(irEng') = IrCore(irEng)
          /\ (RawStep /\ rawHost.term = "Halted") => rawHost'.res = "Halted"
          /\ (IrStep /\ irHost.term = "Halted") => irHost'.res = "Halted"]_vars

\* `+` has ended in both engines; each was then given the two bytes of the
\* stream, the second over the first, and stepped again
C35_Witness ==
    /\ prog = <<"+">>
    /\ stream = <<1, 0>>
    /\ rawHost.term = "Halted" /\ rawHost.res = "Halted"
    /\ rawHost.given = 2 /\ rawHost.ret = <<1>> /\ input(rawEng) = <<0>>
    /\ irHost.term = "Halted" /\ irHost.res = "Halted"
    /\ irHost.given = 2 /\ irHost.ret = <<1>> /\ input(irEng) = <<0>>
    /\ RawCore(rawEng) = <<1, 0, <<1>>>>
    /\ irEng.mem = <<1>>

(***************************************************************************)
(* C36: on a raw Program without loops, with every NeedInput answered by   *)
(* a byte, each of the two engines eventually returns Halted or            *)
(* MemNegativeOut.                                                         *)
(***************************************************************************)
C36_LoopFreeEnds ==
    /\ <>(rawHost.term \in Ended)
    /\ <>(irHost.term \in Ended)

\* the raw engine on such a Program ends, after at most one step per
\* instruction and one more that reports Halted
C36_RawEnds ==
    /\ <>(rawHost.term \in Ended)
    /\ [](rawEng.ip <= Len(prog))

\* the IR engine ends when from_raw has returned a Program
C36_IrEndsIfBuilt ==
    <>(irHost.term \in Ended \/ irProg.panic)

(***************************************************************************)
(* C37: two Memory tapes are equal if and only if their as_bytes (the      *)
(* contents without the zeros at the end) are equal, so that equal tapes   *)
(* feed the same bytes to a hasher; shrink_to_fit changes neither get(i)   *)
(* for any i nor as_bytes.                                                 *)
(***************************************************************************)
C37_EqIsBytesEq ==
    /\ [](mem_eq(memA, memB) <=> mem_as_bytes(memA) = mem_as_bytes(memB))
    /\ [](mem_eq(memA, memB) => mem_hash(memA) = mem_hash(memB))
    /\ [][ShrinkA
          => /\ \A i \in 0..(MaxCell + 1) : mem_get(memA', i) = mem_get(memA, i)
             /\ mem_as_bytes(memA') = mem_as_bytes(memA)
             /\ mem_eq(memA', memA)]_vars

\* a buffer without zeros at its end, to whose cell 2 a zero was written,
\* against a buffer that ends in a zero: equal, with the same as_bytes
C37_Witness ==
    /\ memA = <<0, 1>>
    /\ shadow[2] = 0
    /\ memB = <<0, 1, 0>>
    /\ mem_eq(memA, memB)
    /\ mem_as_bytes(memB) = <<0, 1>>

\* the file starts with the magic number
StartsWithMagic(bytes) == Len(bytes) >= 3 /\ SubSeq(bytes, 1, 3) = MAGIC

\* the text without the white space it starts with
Unindented(s) ==
    IF \A i \in 1..Len(s) : s[i] = 32 THEN <<>>
    ELSE SubSeq(s, (CHOOSE i \in 1..Len(s) :
                       s[i] # 32 /\ \A j \in 1..(i - 1) : s[j] = 32), Len(s))

\* `[` minus `]` among the first j characters of s
Opened(s, j) ==
    Cardinality({i \in 1..j : s[i] = 91}) - Cardinality({i \in 1..j : s[i] = 93})

\* the positions at which the `[` that s starts with is closed
Closings(s) == {j \in 2..Len(s) : Opened(s, j) = 0}

BiasAt(t, p) == IF p \in DOMAIN t.bias THEN t.bias[p] ELSE 0

(***************************************************************************)
(* C39: combine(set(p, a), set(p, b)) is set(p, b), and                    *)
(* combine(add(p, a), add(p, b)) is add(p, (a + b) mod 256), for every     *)
(* cell p and all bytes a and b.                                           *)
(***************************************************************************)
C39_CombineSameCell ==
    affC # <<>>
    => \A p \in LinPositions :
          /\ (affA.matrix # <<>> /\ <<p, p>> \in DOMAIN affA.matrix)
             => affC[1] = affine_set(p, BiasAt(affB, p))
          /\ (affA.matrix = <<>>
                /\ DOMAIN affA.bias \cup DOMAIN affB.bias \subseteq {p})
             => affC[1] = affine_add(p, (BiasAt(affA, p) + BiasAt(affB, p)) % Byte)

\* set(-1, 5) and then set(-1, 42) is set(-1, 42)
C39_Witness ==
    /\ affA = affine_set(-1, 5)
    /\ affB = affine_set(-1, 42)
    /\ affC = <<affine_set(-1, 42)>>

\* add(-1, 200) and then add(-1, 100) is add(-1, 44), and adds that sum to
\* 0 leave no entry
C39_WitnessAdd ==
    /\ affA = affine_add(-1, 200)
    /\ affB = affine_add(-1, 100)
    /\ affC = <<affine_add(-1, 44)>>

====
